---- MODULE Spec2Model ----
(***************************************************************************)
(* Authentication / session lifecycle of go-backend-api:                   *)
(*   services.userService      (register, login, refresh, logout, ...)     *)
(*   repositories.refreshTokenRepository (refresh_tokens table)            *)
(*   auth.JWTManager           (token codec)                               *)
(* Every database statement is one atomic step; requests are served by     *)
(* concurrent processes that interleave between their statements.          *)
(***************************************************************************)
EXTENDS Integers, FiniteSets, Sequences, TLC

(* ------------------------------ bounds --------------------------------- *)
MaxUsers == 2

MaxTokens == 3

MaxTime == 3

Procs == {"p1", "p2"}

Usernames == {"alice", "bob"}

Emails == {"alice@x.com", "bob@x.com"}

Passwords == {"Secur3!Pass", "Wr0ng!Pass"}

UserIds == 1..MaxUsers

TokenIds == 1..MaxTokens

(* The absent value: a nil pointer, sql.ErrNoRows, a failed validation. *)
Nil == [nil |-> TRUE]

(* SQL NULL in a timestamp column *)
NullTime == -1

(* --------------------------- configuration ----------------------------- *)
(* Durations are deployment configuration; the model counts time in ticks, *)
(* keeping their order: the access lifetime (15 minutes) is shorter than   *)
(* the refresh lifetime (7 days), which equals the sweep's retention of    *)
(* revoked rows (INTERVAL '7 days').                                       *)
AccessExpiration == 1

RefreshExpiration == 2

RevokedRetention == 2

AccessSecretKey == "access-secret"

RefreshSecretKey == "refresh-secret"

Issuer == "go-backend-api"

Audience == "go-backend-api-users"

(* ------------------------------ errors --------------------------------- *)
NewAppError(code, message) == [code |-> code, msg |-> message]

OK == NewAppError(200, "OK")

ErrUnauthorized == NewAppError(401, "Unauthorized")

ErrUserNotFound == NewAppError(404, "User not found")

ErrUserExists == NewAppError(409, "User already exists")

ErrValidation == NewAppError(400, "Validation failed")

ErrUsernameTaken == NewAppError(409, "Username already taken")

ErrEmailTaken == NewAppError(409, "Email already taken")

ErrInvalidRefreshToken == NewAppError(401, "Invalid refresh token")

(* A deactivated account answered like a wrong password. *)
ErrDeactivated_AsUnauthorized == NewAppError(401, "Unauthorized")

ErrDeactivated == NewAppError(403, "Account is deactivated")

ErrPanic == NewAppError(500, "panic: nil pointer dereference")

(* WrapError: an *AppError passes through unchanged, anything else (a      *)
(* database driver error) becomes a 500 carrying the given message.        *)
DbError == [code |-> 0, msg |-> "pq: constraint violation"]

WrapError(err, message) ==
    IF err.code # 0 THEN err ELSE NewAppError(500, message)

(* ------------------------------- state --------------------------------- *)
VARIABLES
    users,       \* rows of table users
    tokens,      \* rows of table refresh_tokens (committed)
    now,         \* wall clock
    nextUserId,  \* next id handed out by uuid_generate_v4()
    nextTid,     \* next value handed out by generateTokenID()
    issued,      \* token pairs that were returned to a client
    proc,        \* per request: position and locals
    resp,        \* the response sent by the latest step (Nil: none)
    rotated,     \* history: the rotations that committed, [old, new] token_id
    loggedOut,   \* history: token_ids whose Logout has returned nil
    deactivated  \* history: users deactivated and not activated since

vars == <<users, tokens, now, nextUserId, nextTid, issued, proc, resp, rotated, loggedOut,
          deactivated>>

(* ------------------------- request bookkeeping ------------------------- *)
Idle == [pc |-> "idle"]

(* A request that has returned: its operation, arguments, error value,    *)
(* payload and what it observed on the way.                                *)
Ret(op, in, res, out, obs) ==
    [pc |-> "ret", op |-> op, in |-> in, res |-> res, out |-> out, obs |-> obs]

Running(pcv, op, in, loc, obs) ==
    [pc |-> pcv, op |-> op, in |-> in, loc |-> loc, obs |-> obs]

NoObs == [none |-> TRUE]

(* A process can take a new request when it is not inside one. *)
Free(p) == proc[p] = Idle

(* The step of request p ends in r: either the request returns (its        *)
(* response is sent and the process is free again) or it moves on.         *)
Emit(p, r) ==
    IF r.pc = "ret"
    THEN /\ proc' = [proc EXCEPT ![p] = Idle]
         /\ resp' = r
    ELSE /\ proc' = [proc EXCEPT ![p] = r]
         /\ resp' = Nil

(* --------------------------- password rules ---------------------------- *)
(* Passwords a client may send to Register. *)
PolicyPasswords ==
    {"Secur3!Pass", "Wr0ng!Pass", "abc123", "abcde", "abcdefgh", "secur3pass", "Secur3!Test", "Secur3!!!!x", "Abcd3!xywz"}

(* []byte(password): the characters of a password. *)
PwChars(pw) ==
    CASE pw = "Secur3!Pass" -> <<"S", "e", "c", "u", "r", "3", "!", "P", "a", "s", "s">>
      [] pw = "Wr0ng!Pass" -> <<"W", "r", "0", "n", "g", "!", "P", "a", "s", "s">>
      [] pw = "abc123" -> <<"a", "b", "c", "1", "2", "3">>
      [] pw = "abcde" -> <<"a", "b", "c", "d", "e">>
      [] pw = "abcdefgh" -> <<"a", "b", "c", "d", "e", "f", "g", "h">>
      [] pw = "secur3pass" -> <<"s", "e", "c", "u", "r", "3", "p", "a", "s", "s">>
      [] pw = "Secur3!Test" -> <<"S", "e", "c", "u", "r", "3", "!", "T", "e", "s", "t">>
      [] pw = "Secur3!!!!x" -> <<"S", "e", "c", "u", "r", "3", "!", "!", "!", "!", "x">>
      [] pw = "Abcd3!xywz" -> <<"A", "b", "c", "d", "3", "!", "x", "y", "w", "z">>

LowerAlphabet == <<"a", "b", "c", "d", "e", "f", "g", "h", "i", "j", "k", "l", "m", "n", "o", "p", "q", "r", "s", "t", "u", "v", "w", "x", "y", "z">>

UpperAlphabet == <<"A", "B", "C", "D", "E", "F", "G", "H", "I", "J", "K", "L", "M", "N", "O", "P", "Q", "R", "S", "T", "U", "V", "W", "X", "Y", "Z">>

Digits == <<"0", "1", "2", "3", "4", "5", "6", "7", "8", "9">>

Range(f) == {f[i] : i \in DOMAIN f}

(* unicode.IsUpper / IsLower / IsNumber / IsPunct || IsSymbol on ASCII *)
IsUpper(c) == c \in Range(UpperAlphabet)

IsLower(c) == c \in Range(LowerAlphabet)

IsNumber(c) == c \in Range(Digits)

(* The ASCII characters of Unicode categories P* (unicode.IsPunct) and S*  *)
(* (unicode.IsSymbol). A space, a tab and a control character are in       *)
(* neither.                                                                *)
Punct == {"!", "\"", "#", "%", "&", "'", "(", ")", "*", ",", "-", ".", "/", ":", ";",
          "?", "@", "[", "\\", "]", "_", "{", "}"}

(* U+0060, the grave accent (category Sk): the first character of a string *)
(* that holds it, since a string literal cannot end right after it.        *)
GraveAccent == SubSeq("`'", 1, 1)

Symbol == {"$", "+", "<", "=", ">", "^", GraveAccent, "|", "~"}

IsSpecial(c) == c \in Punct \/ c \in Symbol

(* strings.ToLower *)
ToLower(cs) ==
    [i \in DOMAIN cs |->
        IF IsUpper(cs[i])
        THEN LowerAlphabet[CHOOSE k \in DOMAIN UpperAlphabet : UpperAlphabet[k] = cs[i]]
        ELSE cs[i]]

(* strings.Contains *)
Contains(cs, sub) ==
    \E i \in 0..(Len(cs) - Len(sub)) : SubSeq(cs, i + 1, i + Len(sub)) = sub

(* validation.validatePassword: at least 6 characters, one letter [a-zA-Z] *)
(* and one digit [0-9].                                                    *)
validatePassword(pw) ==
    LET cs == PwChars(pw)
    IN  IF Len(cs) < 6 THEN FALSE
        ELSE /\ \E i \in DOMAIN cs : IsUpper(cs[i]) \/ IsLower(cs[i])
             /\ \E i \in DOMAIN cs : IsNumber(cs[i])

(* DefaultPasswordPolicy *)
MinLength == 8

MaxLength == 128

MaxConsecutive == 3

(* The words in the order of the slice; each with its characters. *)
ForbiddenWords ==
    <<[word |-> "password", chars |-> <<"p", "a", "s", "s", "w", "o", "r", "d">>],
      [word |-> "123456", chars |-> <<"1", "2", "3", "4", "5", "6">>],
      [word |-> "qwerty", chars |-> <<"q", "w", "e", "r", "t", "y">>],
      [word |-> "abc123", chars |-> <<"a", "b", "c", "1", "2", "3">>],
      [word |-> "password123", chars |-> <<"p", "a", "s", "s", "w", "o", "r", "d", "1", "2", "3">>],
      [word |-> "admin", chars |-> <<"a", "d", "m", "i", "n">>],
      [word |-> "root", chars |-> <<"r", "o", "o", "t">>],
      [word |-> "user", chars |-> <<"u", "s", "e", "r">>],
      [word |-> "test", chars |-> <<"t", "e", "s", "t">>],
      [word |-> "guest", chars |-> <<"g", "u", "e", "s", "t">>],
      [word |-> "demo", chars |-> <<"d", "e", "m", "o">>]>>

(* The first word of the policy that the lower-cased password contains, as *)
(* the loop over pp.ForbiddenWords finds it; Nil when it contains none.    *)
ForbiddenWordIn(cs) ==
    LET low  == ToLower(cs)
        hits == {k \in DOMAIN ForbiddenWords :
                    Contains(low, ToLower(ForbiddenWords[k].chars))}
    IN  IF hits = {} THEN Nil
        ELSE ForbiddenWords[CHOOSE k \in hits : \A j \in hits : k <= j]

sequential ==
    {<<"a", "b", "c", "d", "e", "f", "g", "h", "i", "j", "k", "l", "m", "n", "o", "p", "q", "r", "s", "t", "u", "v", "w", "x", "y", "z">>,
     <<"z", "y", "x", "w", "v", "u", "t", "s", "r", "q", "p", "o", "n", "m", "l", "k", "j", "i", "h", "g", "f", "e", "d", "c", "b", "a">>,
     <<"0", "1", "2", "3", "4", "5", "6", "7", "8", "9">>,
     <<"9", "8", "7", "6", "5", "4", "3", "2", "1", "0">>,
     <<"q", "w", "e", "r", "t", "y", "u", "i", "o", "p">>,
     <<"p", "o", "i", "u", "y", "t", "r", "e", "w", "q">>,
     <<"a", "s", "d", "f", "g", "h", "j", "k", "l">>,
     <<"l", "k", "j", "h", "g", "f", "d", "s", "a">>,
     <<"z", "x", "c", "v", "b", "n", "m">>,
     <<"m", "n", "b", "v", "c", "x", "z">>}

(* regexp.MustCompile(`(.{2,})\1`) *)
RegexpPanic == "panic: regexp: Compile: invalid escape sequence"

(* checkCommonPatterns: a 4-character window of a sequential string, then  *)
(* regexp.MustCompile of a pattern with a backreference, which Go's        *)
(* regexp package does not compile: MustCompile panics.                    *)
PasswordPolicy_checkCommonPatterns(cs) ==
    LET lowerPassword == ToLower(cs)
    IN  IF \E sq \in sequential : \E i \in 0..(Len(sq) - 4) :
              Contains(lowerPassword, SubSeq(sq, i + 1, i + 4))
        THEN "password contains sequential characters"
        ELSE RegexpPanic

(* PasswordPolicy.ValidatePassword with the default policy, on the         *)
(* characters of the password: "ok" for a nil error, else the error's      *)
(* message.                                                                *)
PasswordPolicy_ValidatePassword(cs) ==
    IF Len(cs) < MinLength THEN "password must be at least 8 characters long"
    ELSE IF Len(cs) > MaxLength THEN "password must be no more than 128 characters long"
    ELSE IF ~\E i \in DOMAIN cs : IsUpper(cs[i])
    THEN "password must contain at least one uppercase letter"
    ELSE IF ~\E i \in DOMAIN cs : IsLower(cs[i])
    THEN "password must contain at least one lowercase letter"
    ELSE IF ~\E i \in DOMAIN cs : IsNumber(cs[i])
    THEN "password must contain at least one number"
    ELSE IF ~\E i \in DOMAIN cs : IsSpecial(cs[i])
    THEN "password must contain at least one special character"
    ELSE IF ForbiddenWordIn(cs) # Nil
    THEN "password contains forbidden word: " \o ForbiddenWordIn(cs).word
    ELSE IF \E i \in 1..(Len(cs) - MaxConsecutive) :
              \A k \in 1..MaxConsecutive : cs[i + k] = cs[i]
    THEN "password cannot contain more than 3 consecutive identical characters"
    ELSE PasswordPolicy_checkCommonPatterns(cs)

checkCommonPatterns(pw) == PasswordPolicy_checkCommonPatterns(PwChars(pw))

ValidatePassword(pw) == PasswordPolicy_ValidatePassword(PwChars(pw))

(* ----------------------------- User Store ------------------------------ *)
(* A GetByID whose Scan leaves IsActive true for every user. *)
GetByID_AllActive(id) ==
    IF \E u \in users : u.id = id
    THEN [(CHOOSE u \in users : u.id = id) EXCEPT !.is_active = TRUE]
    ELSE Nil

(* userRepository.GetByID as written: SELECT id, username, email,          *)
(* password, created_at, updated_at FROM users WHERE id = $1, scanned into *)
(* a fresh User. is_active is not selected, so IsActive keeps Go's zero    *)
(* value, false. Nil for sql.ErrNoRows.                                    *)
GetByID(id) ==
    IF \E u \in users : u.id = id
    THEN [(CHOOSE u \in users : u.id = id) EXCEPT !.is_active = FALSE]
    ELSE Nil

(* userRepository.GetByEmail as written: the same columns WHERE email =    *)
(* $1; IsActive of the User it returns is false as well.                   *)
GetByEmail(email) ==
    IF \E u \in users : u.email = email
    THEN [(CHOOSE u \in users : u.email = email) EXCEPT !.is_active = FALSE]
    ELSE Nil

(* The User Store of the specification: GetByID and GetByEmail return the  *)
(* user with the is_active flag that is stored. The service is written     *)
(* against models.UserRepository, and main constructs it from package      *)
(* go-backend-api/internal/repositories, whose user repository is not      *)
(* among the sources (the one above belongs to internal/application).      *)
UserStore_GetByID(id) ==
    IF \E u \in users : u.id = id THEN CHOOSE u \in users : u.id = id ELSE Nil

UserStore_GetByEmail(email) ==
    IF \E u \in users : u.email = email
    THEN CHOOSE u \in users : u.email = email ELSE Nil

ExistsByEmail(email) == \E u \in users : u.email = email

(* An existence query that compares the wrong column. *)
ExistsByUsername_WrongColumn(username) == \E u \in users : u.email = username

ExistsByUsername(username) == \E u \in users : u.username = username

(* A users table without its UNIQUE constraints. *)
UsersUniqueOk_NoConstraint(r, others) == TRUE

(* UNIQUE (username), UNIQUE (email) of table users: may row r be stored   *)
(* next to the rows of others?                                             *)
UsersUniqueOk(r, others) ==
    \A u \in others : u.username # r.username /\ u.email # r.email

(* bcrypt.GenerateFromPassword / CompareHashAndPassword *)
HashPassword(pw) == [bcrypt |-> pw]

CompareHashAndPassword(hash, pw) == hash = [bcrypt |-> pw]

(* INSERT INTO users (username, email, password, ...) RETURNING id;        *)
(* is_active takes the column default (true).                              *)
NewUserRow(id, username, email, hash) ==
    [id |-> id, username |-> username, email |-> email,
     password |-> hash, is_active |-> TRUE]

(* ------------------------- services.CreateUser ------------------------- *)
(* What the registry held when the request's existence queries ran: a user *)
(* with the requested email, a user with the requested username; and what  *)
(* it held when CreateUser was called: a user with the requested email or  *)
(* the requested username.                                                 *)
RegisterObs(emailTaken, usernameTaken, takenAtCall) ==
    [emailTaken |-> emailTaken, usernameTaken |-> usernameTaken,
     takenAtCall |-> takenAtCall]

(* s.validator.Validate(req) (the usernames and emails drawn are well      *)
(* formed, so the password rule decides), then statement 1: ExistsByEmail. *)
CreateUser_CheckEmail(p, username, email, password) ==
    /\ Free(p)
    /\ nextUserId + Cardinality({q \in Procs : proc[q].pc \in {"c_username", "c_insert"}})
          <= MaxUsers
    /\ LET in  == [username |-> username, email |-> email, password |-> password]
           obs == RegisterObs(\E u \in users : u.email = email, FALSE,
                              \E u \in users : u.email = email \/ u.username = username)
       IN  Emit(p,
              IF ~validatePassword(password)
              THEN Ret("register", in, ErrValidation, Nil, obs)
              ELSE IF ExistsByEmail(email)
              THEN Ret("register", in, ErrUserExists, Nil, obs)
              ELSE Running("c_username", "register", in, Nil, obs))
    /\ UNCHANGED <<users, tokens, now, nextUserId, nextTid, issued, rotated, loggedOut, deactivated>>

(* Statement 2: ExistsByUsername.                                          *)
CreateUser_CheckUsername(p) ==
    /\ proc[p].pc = "c_username"
    /\ LET in  == proc[p].in
           obs == RegisterObs(proc[p].obs.emailTaken,
                              \E u \in users : u.username = in.username,
                              proc[p].obs.takenAtCall)
       IN  Emit(p,
              IF ExistsByUsername(in.username)
              THEN Ret("register", in, ErrUsernameTaken, Nil, obs)
              ELSE Running("c_insert", "register", in,
                           [hash |-> HashPassword(in.password)], obs))
    /\ UNCHANGED <<users, tokens, now, nextUserId, nextTid, issued, rotated, loggedOut, deactivated>>

(* Statement 3: userRepo.Create; a constraint violation is a driver error  *)
(* that WrapError turns into a 500.                                        *)
CreateUser_Insert(p) ==
    /\ proc[p].pc = "c_insert"
    /\ LET in  == proc[p].in
           row == NewUserRow(nextUserId, in.username, in.email, proc[p].loc.hash)
       IN  IF UsersUniqueOk(row, users)
           THEN /\ users' = users \cup {row}
                /\ nextUserId' = nextUserId + 1
                /\ Emit(p,
                      Ret("register", in, OK, [row EXCEPT !.password = ""], proc[p].obs))
           ELSE /\ UNCHANGED <<users, nextUserId>>
                /\ Emit(p,
                      Ret("register", in,
                          WrapError(WrapError(DbError, "Failed to create user"),
                                    "Failed to create user"),
                          Nil, proc[p].obs))
    /\ UNCHANGED <<tokens, now, nextTid, issued, rotated, loggedOut, deactivated>>

(* ------------------------- services.UpdateUser ------------------------- *)
(* UPDATE users SET username, email, is_active, last_login, updated_at     *)
(* WHERE id = $6, with the values of the struct read earlier.              *)
UsersUpdate(rows, user) ==
    {IF u.id = user.id
     THEN [u EXCEPT !.username = user.username, !.email = user.email,
                    !.is_active = user.is_active]
     ELSE u : u \in rows}

UpdateNextPc(in, stage) ==
    IF stage = 0 /\ in.username # "" THEN "u_username"
    ELSE IF stage <= 1 /\ in.email # "" THEN "u_email"
    ELSE "u_update"

(* Statement 1, given the struct user that s.userRepo.GetByID returned. *)
UpdateUser_GetWith(p, id, username, email, user) ==
    /\ Free(p)
    /\ LET in   == [id |-> id, username |-> username, email |-> email]
       IN  Emit(p,
              IF user = Nil
              THEN Ret("update", in, ErrUserNotFound, Nil, NoObs)
              ELSE Running(UpdateNextPc(in, 0), "update", in, [user |-> user], NoObs))
    /\ UNCHANGED <<users, tokens, now, nextUserId, nextTid, issued, rotated, loggedOut, deactivated>>

(* Statement 1: GetByID. *)
UpdateUser_Get(p, id, username, email) ==
    UpdateUser_GetWith(p, id, username, email, GetByID(id))

(* Statement 1 over the User Store of the specification. *)
UpdateUser_Get_UserStore(p, id, username, email) ==
    UpdateUser_GetWith(p, id, username, email, UserStore_GetByID(id))

(* Statement 2 (only when a username is given): ExistsByUsername. *)
UpdateUser_CheckUsername(p) ==
    /\ proc[p].pc = "u_username"
    /\ LET in   == proc[p].in
           user == proc[p].loc.user
       IN  Emit(p,
              IF ExistsByUsername(in.username) /\ user.username # in.username
              THEN Ret("update", in, ErrUsernameTaken, Nil, NoObs)
              ELSE Running(UpdateNextPc(in, 1), "update", in,
                           [user |-> [user EXCEPT !.username = in.username]], NoObs))
    /\ UNCHANGED <<users, tokens, now, nextUserId, nextTid, issued, rotated, loggedOut, deactivated>>

(* Statement 3 (only when an email is given): ExistsByEmail. *)
UpdateUser_CheckEmail(p) ==
    /\ proc[p].pc = "u_email"
    /\ LET in   == proc[p].in
           user == proc[p].loc.user
       IN  Emit(p,
              IF ExistsByEmail(in.email) /\ user.email # in.email
              THEN Ret("update", in, ErrEmailTaken, Nil, NoObs)
              ELSE Running("u_update", "update", in,
                           [user |-> [user EXCEPT !.email = in.email]], NoObs))
    /\ UNCHANGED <<users, tokens, now, nextUserId, nextTid, issued, rotated, loggedOut, deactivated>>

(* Statement 4: userRepo.Update. *)
UpdateUser_Write(p) ==
    /\ proc[p].pc = "u_update"
    /\ LET in   == proc[p].in
           user == proc[p].loc.user
           new  == UsersUpdate(users, user)
           ok   == \A r \in new : UsersUniqueOk(r, new \ {r})
       IN  IF ok
           THEN /\ users' = new
                /\ Emit(p,
                      Ret("update", in, OK, [user EXCEPT !.password = ""], NoObs))
           ELSE /\ users' = users
                /\ Emit(p,
                      Ret("update", in,
                          WrapError(WrapError(DbError, "Failed to update user"),
                                    "Failed to update user"), Nil, NoObs))
    /\ UNCHANGED <<tokens, now, nextUserId, nextTid, issued, rotated, loggedOut, deactivated>>

(* ----------------- services.DeleteUser / Activate / Deactivate --------- *)
(* A row of refresh_tokens that a RotateToken transaction holds FOR UPDATE *)
Locked(tid) ==
    \E q \in Procs : proc[q].pc = "r_commit" /\ proc[q].loc.old = tid

UserRowsLocked(id) == \E r \in tokens : r.user_id = id /\ Locked(r.token_id)

(* DeleteUser, statement 1: GetByID. *)
DeleteUser_Get(p, id) ==
    /\ Free(p)
    /\ Emit(p,
          IF GetByID(id) = Nil
          THEN Ret("delete", [id |-> id], ErrUserNotFound, Nil, NoObs)
          ELSE Running("d_delete", "delete", [id |-> id], Nil, NoObs))
    /\ UNCHANGED <<users, tokens, now, nextUserId, nextTid, issued, rotated, loggedOut, deactivated>>

(* DeleteUser, statement 2: DELETE FROM users WHERE id = $1;               *)
(* refresh_tokens.user_id is declared REFERENCES users(id) ON DELETE       *)
(* CASCADE. The DELETE waits while a rotation holds one of the user's      *)
(* token rows; a DELETE that matches no row returns nil as well.           *)
DeleteUser_Delete(p) ==
    /\ proc[p].pc = "d_delete"
    /\ ~UserRowsLocked(proc[p].in.id)
    /\ users' = {u \in users : u.id # proc[p].in.id}
    /\ tokens' = {r \in tokens : r.user_id # proc[p].in.id}
    /\ deactivated' = deactivated \ {proc[p].in.id}
    /\ Emit(p, Ret("delete", proc[p].in, OK, Nil, NoObs))
    /\ UNCHANGED <<now, nextUserId, nextTid, issued, rotated, loggedOut>>

(* The DELETE of request p holds the users row and waits, in its cascade,  *)
(* for a token row that the rotation of request q has locked, while the    *)
(* INSERT of q waits, in its foreign-key check, for that users row: the    *)
(* database ends the deadlock by failing one of the two statements.        *)
Deadlocked(p, q) ==
    /\ proc[p].pc = "d_delete"
    /\ proc[q].pc = "r_commit"
    /\ GetByID(proc[p].in.id) # Nil
    /\ proc[q].loc.row.user_id = proc[p].in.id
    /\ \E r \in tokens : r.token_id = proc[q].loc.old /\ r.user_id = proc[p].in.id

(* The DELETE is the statement that fails. *)
DeleteUser_Deadlock(p) ==
    /\ \E q \in Procs : Deadlocked(p, q)
    /\ Emit(p,
          Ret("delete", proc[p].in,
              WrapError(WrapError(DbError, "Failed to delete user"),
                        "Failed to delete user"), Nil, NoObs))
    /\ UNCHANGED <<users, tokens, now, nextUserId, nextTid, issued, rotated, loggedOut, deactivated>>

(* A change of is_active that also blanks the username of the row. *)
SetActive_Anonymise(rows, id, flag) ==
    {IF u.id = id THEN [u EXCEPT !.is_active = flag, !.username = ""] ELSE u : u \in rows}

(* UPDATE users SET is_active = <flag> WHERE id = $2 *)
SetActive(rows, id, flag) ==
    {IF u.id = id THEN [u EXCEPT !.is_active = flag] ELSE u : u \in rows}

(* ActivateUser, statement 1: GetByID. *)
ActivateUser_Get(p, id) ==
    /\ Free(p)
    /\ Emit(p,
          IF GetByID(id) = Nil
          THEN Ret("activate", [id |-> id], ErrUserNotFound, Nil, NoObs)
          ELSE Running("ac_write", "activate", [id |-> id], Nil, NoObs))
    /\ UNCHANGED <<users, tokens, now, nextUserId, nextTid, issued, rotated, loggedOut, deactivated>>

(* ActivateUser, statement 2: userRepo.Activate; an UPDATE that matches no *)
(* row returns nil as well.                                                *)
ActivateUser_Write(p) ==
    /\ proc[p].pc = "ac_write"
    /\ users' = SetActive(users, proc[p].in.id, TRUE)
    /\ deactivated' = deactivated \ {proc[p].in.id}
    /\ Emit(p, Ret("activate", proc[p].in, OK, Nil, NoObs))
    /\ UNCHANGED <<tokens, now, nextUserId, nextTid, issued, rotated, loggedOut>>

(* DeactivateUser, statement 1: GetByID. *)
DeactivateUser_Get(p, id) ==
    /\ Free(p)
    /\ Emit(p,
          IF GetByID(id) = Nil
          THEN Ret("deactivate", [id |-> id], ErrUserNotFound, Nil, NoObs)
          ELSE Running("de_write", "deactivate", [id |-> id], Nil, NoObs))
    /\ UNCHANGED <<users, tokens, now, nextUserId, nextTid, issued, rotated, loggedOut, deactivated>>

(* A deactivation that also revokes the user's refresh tokens. *)
DeactivateUser_Write_RevokeAll(p) ==
    /\ proc[p].pc = "de_write"
    /\ users' = SetActive(users, proc[p].in.id, FALSE)
    /\ tokens' = {IF r.user_id = proc[p].in.id /\ ~r.is_revoked
                  THEN [r EXCEPT !.is_revoked = TRUE, !.revoked_at = now]
                  ELSE r : r \in tokens}
    /\ deactivated' = IF GetByID(proc[p].in.id) # Nil
                      THEN deactivated \cup {proc[p].in.id} ELSE deactivated
    /\ Emit(p, Ret("deactivate", proc[p].in, OK, Nil, NoObs))
    /\ UNCHANGED <<now, nextUserId, nextTid, issued, rotated, loggedOut>>

(* DeactivateUser, statement 2: userRepo.Deactivate; an UPDATE that        *)
(* matches no row returns nil as well.                                     *)
DeactivateUser_Write(p) ==
    /\ proc[p].pc = "de_write"
    /\ users' = SetActive(users, proc[p].in.id, FALSE)
    /\ deactivated' = IF GetByID(proc[p].in.id) # Nil
                      THEN deactivated \cup {proc[p].in.id} ELSE deactivated
    /\ Emit(p, Ret("deactivate", proc[p].in, OK, Nil, NoObs))
    /\ UNCHANGED <<tokens, now, nextUserId, nextTid, issued, rotated, loggedOut>>

(* ------------------------------ Token Codec ---------------------------- *)
(* A signed token: the key it was signed with and its claims. *)
(* A JWTManager holds the two signing secrets, the issuer, the audience    *)
(* and the two lifetimes it was constructed with.                          *)
NewJWTManager(accessSecret, refreshSecret, issuer, audience, accessDuration, refreshDuration) ==
    [accessSecretKey |-> accessSecret, refreshSecretKey |-> refreshSecret,
     issuer |-> issuer, audience |-> audience,
     accessDuration |-> accessDuration, refreshDuration |-> refreshDuration]

(* The manager main constructs from the configuration. *)
jwtManager ==
    NewJWTManager(AccessSecretKey, RefreshSecretKey, Issuer, Audience,
                  AccessExpiration, RefreshExpiration)

(* A signed token: its claims and the secret that produced its HMAC. *)
JWTManager_SignedToken(j, secret, type, user, tokenID, exp, t) ==
    [secret |-> secret, type |-> type, iss |-> j.issuer, aud |-> j.audience,
     user_id |-> user.id, username |-> user.username, token_id |-> tokenID,
     exp |-> exp, nbf |-> t]

JWTManager_generateAccessToken(j, user, tokenID, t) ==
    JWTManager_SignedToken(j, j.accessSecretKey, "access", user, tokenID,
                           t + j.accessDuration, t)

(* A refresh token that carries the type of an access token. *)
JWTManager_generateRefreshToken_AccessType(j, user, tokenID, t) ==
    JWTManager_SignedToken(j, j.refreshSecretKey, "access", user, tokenID,
                           t + j.refreshDuration, t)

JWTManager_generateRefreshToken(j, user, tokenID, t) ==
    JWTManager_SignedToken(j, j.refreshSecretKey, "refresh", user, tokenID,
                           t + j.refreshDuration, t)

JWTManager_GenerateTokenPair(j, user, tokenID, t) ==
    [access_token  |-> JWTManager_generateAccessToken(j, user, tokenID, t),
     refresh_token |-> JWTManager_generateRefreshToken(j, user, tokenID, t)]

(* A validation that does not look at the type claim. *)
JWTManager_validateToken_AnyType(j, tok, secretKey, expectedType, t) ==
    IF tok.secret # secretKey THEN Nil
    ELSE IF ~(t < tok.exp) \/ ~(t >= tok.nbf) THEN Nil
    ELSE IF tok.iss # j.issuer THEN Nil
    ELSE IF tok.aud # j.audience THEN Nil
    ELSE [user_id |-> tok.user_id, username |-> tok.username,
          token_id |-> tok.token_id, type |-> tok.type]

(* A validation that does not look at the issuer. *)
JWTManager_validateToken_AnyIssuer(j, tok, secretKey, expectedType, t) ==
    IF tok.secret # secretKey THEN Nil
    ELSE IF ~(t < tok.exp) \/ ~(t >= tok.nbf) THEN Nil
    ELSE IF tok.type # expectedType THEN Nil
    ELSE IF tok.aud # j.audience THEN Nil
    ELSE [user_id |-> tok.user_id, username |-> tok.username,
          token_id |-> tok.token_id, type |-> tok.type]

(* jwt.Parse verifies the HMAC signature, then exp (now < exp) and nbf     *)
(* (now >= nbf); validateToken then checks type, issuer and audience.      *)
JWTManager_validateToken(j, tok, secretKey, expectedType, t) ==
    IF tok.secret # secretKey THEN Nil
    ELSE IF ~(t < tok.exp) \/ ~(t >= tok.nbf) THEN Nil
    ELSE IF tok.type # expectedType THEN Nil
    ELSE IF tok.iss # j.issuer THEN Nil
    ELSE IF tok.aud # j.audience THEN Nil
    ELSE [user_id |-> tok.user_id, username |-> tok.username,
          token_id |-> tok.token_id, type |-> tok.type]

JWTManager_ValidateAccessToken(j, tok, t) ==
    JWTManager_validateToken(j, tok, j.accessSecretKey, "access", t)

JWTManager_ValidateRefreshToken(j, tok, t) ==
    JWTManager_validateToken(j, tok, j.refreshSecretKey, "refresh", t)

(* The same operations on the manager of the running server. *)
SignedToken(secret, type, user, tokenID, exp, t) ==
    JWTManager_SignedToken(jwtManager, secret, type, user, tokenID, exp, t)

generateAccessToken(user, tokenID, t) ==
    JWTManager_generateAccessToken(jwtManager, user, tokenID, t)

generateRefreshToken(user, tokenID, t) ==
    JWTManager_generateRefreshToken(jwtManager, user, tokenID, t)

GenerateTokenPair(user, tokenID, t) ==
    JWTManager_GenerateTokenPair(jwtManager, user, tokenID, t)

validateToken(tok, secretKey, expectedType, t) ==
    JWTManager_validateToken(jwtManager, tok, secretKey, expectedType, t)

ValidateAccessToken(tok, t) == JWTManager_ValidateAccessToken(jwtManager, tok, t)

ValidateRefreshToken(tok, t) == JWTManager_ValidateRefreshToken(jwtManager, tok, t)

(* A store that keeps the refresh token itself. *)
HashRefreshToken_Raw(tok) == tok

HashRefreshToken(tok) == [sha256 |-> tok]

(* middleware.AuthMiddleware: the bearer token passes iff                  *)
(* ValidateAccessToken accepts it; the user store is not consulted.        *)
AuthMiddleware(tok, t) ==
    IF ValidateAccessToken(tok, t) = Nil
    THEN NewAppError(401, "Invalid token")
    ELSE OK

(* -------------------------- Refresh Token Store ------------------------ *)
NewTokenRow(tokenID, tokenHash, userID, expiresAt) ==
    [token_id |-> tokenID, token_hash |-> tokenHash, user_id |-> userID,
     expires_at |-> expiresAt, is_revoked |-> FALSE, revoked_at |-> NullTime]

(* A table whose token_id is not declared UNIQUE. *)
TokenInsertOk_NoUnique(rows, row) ==
    \E u \in users : u.id = row.user_id

(* token_id is UNIQUE and user_id REFERENCES users(id). *)
TokenInsertOk(rows, row) ==
    /\ \A r \in rows : r.token_id # row.token_id
    /\ \E u \in users : u.id = row.user_id

(* An UPDATE ... WHERE user_id = (the user of the token): every session   *)
(* of the token's user is revoked.                                         *)
Revoke_ByUser(rows, tokenID, t) ==
    {IF \E o \in rows : o.token_id = tokenID /\ o.user_id = r.user_id
     THEN [r EXCEPT !.is_revoked = TRUE, !.revoked_at = t]
     ELSE r : r \in rows}

(* An UPDATE that matches no row. *)
Revoke_Skipped(rows, tokenID, t) == rows

(* UPDATE refresh_tokens SET is_revoked = true, revoked_at = $1            *)
(* WHERE token_id = $2                                                     *)
Revoke(rows, tokenID, t) ==
    {IF r.token_id = tokenID
     THEN [r EXCEPT !.is_revoked = TRUE, !.revoked_at = t]
     ELSE r : r \in rows}

(* UPDATE refresh_tokens SET is_revoked = true, revoked_at = $1            *)
(* WHERE user_id = $2 AND is_revoked = false                               *)
RevokeAllForUser(rows, userID, t) ==
    {IF r.user_id = userID /\ ~r.is_revoked
     THEN [r EXCEPT !.is_revoked = TRUE, !.revoked_at = t]
     ELSE r : r \in rows}

GetByTokenID(tokenID) ==
    IF \E r \in tokens : r.token_id = tokenID
    THEN CHOOSE r \in tokens : r.token_id = tokenID ELSE Nil

(* A rotation test that forgets is_revoked. *)
RotateTokenValid_IgnoreRevoked(row, t) ==
    /\ row # Nil
    /\ ~(row.expires_at < t)

(* RotateToken's test of the row it has locked. *)
RotateTokenValid(row, t) ==
    /\ row # Nil
    /\ ~(row.is_revoked \/ row.expires_at < t)

(* A sweep that deletes expired rows only. *)
DeleteExpiredMatches_ExpiredOnly(r, t) ==
    r.expires_at < t

(* DELETE ... WHERE expires_at < NOW()                                     *)
(*    OR (is_revoked = true AND revoked_at < NOW() - INTERVAL '7 days')    *)
DeleteExpiredMatches(r, t) ==
    \/ r.expires_at < t
    \/ (r.is_revoked /\ r.revoked_at # NullTime /\ r.revoked_at < t - RevokedRetention)

(* ----------------------- services.AuthenticateUser --------------------- *)
(* What the registry held for the request: a user with the email when the  *)
(* request began; at the password lookup, a hash other than the password's *)
(* and an is_active flag that is false.                                    *)
LoginObs(found, wrongPassword, inactive) ==
    [found |-> found, wrongPassword |-> wrongPassword, inactive |-> inactive]

(* Requests that have still to draw a token id. *)
PendingGen == Cardinality({q \in Procs : proc[q].pc = "a_pw"})

(* Statement 1, given the struct user that s.GetUserByEmail got from      *)
(* s.userRepo.GetByEmail.                                                  *)
AuthenticateUser_GetWith(p, email, password, user) ==
    /\ Free(p)
    /\ nextTid + PendingGen <= MaxTokens
    /\ LET in   == [email |-> email, password |-> password]
       IN  Emit(p,
              IF user = Nil
              THEN Ret("login", in, ErrUserNotFound, Nil, LoginObs(FALSE, FALSE, FALSE))
              ELSE Running("a_pw", "login", in, [user |-> user],
                           LoginObs(TRUE, FALSE, FALSE)))
    /\ UNCHANGED <<users, tokens, now, nextUserId, nextTid, issued, rotated, loggedOut, deactivated>>

(* Statement 1: s.GetUserByEmail. *)
AuthenticateUser_Get(p, email, password) ==
    AuthenticateUser_GetWith(p, email, password, GetByEmail(email))

(* Statement 1 over the User Store of the specification. *)
AuthenticateUser_Get_UserStore(p, email, password) ==
    AuthenticateUser_GetWith(p, email, password, UserStore_GetByEmail(email))

(* Statement 2, given the struct uwp that s.userRepo.GetByEmail returned:  *)
(* the password and is_active checks and the minting of the pair.          *)
AuthenticateUser_CheckWith(p, uwp) ==
    /\ proc[p].pc = "a_pw"
    /\ LET in   == proc[p].in
           user == proc[p].loc.user
           pair == GenerateTokenPair(user, nextTid, now)
           rc   == ValidateRefreshToken(pair.refresh_token, now)
           obs  == IF \E u \in users : u.email = in.email
                   THEN LET row == CHOOSE u \in users : u.email = in.email
                        IN  LoginObs(TRUE, row.password # [bcrypt |-> in.password],
                                     ~row.is_active)
                   ELSE proc[p].obs
       IN  IF uwp = Nil
           THEN /\ Emit(p, Ret("login", in, ErrPanic, Nil, obs))
                /\ UNCHANGED nextTid
           ELSE IF ~CompareHashAndPassword(uwp.password, in.password)
           THEN /\ Emit(p, Ret("login", in, ErrUnauthorized, Nil, obs))
                /\ UNCHANGED nextTid
           ELSE IF ~uwp.is_active
           THEN /\ Emit(p, Ret("login", in, ErrDeactivated, Nil, obs))
                /\ UNCHANGED nextTid
           ELSE IF rc = Nil
           THEN /\ Emit(p,
                      Ret("login", in,
                          NewAppError(500, "Failed to validate generated refresh token"),
                          Nil, obs))
                /\ nextTid' = nextTid + 1
           ELSE /\ Emit(p,
                      Running("a_create", "login", in,
                              [user |-> user, pair |-> pair,
                               row |-> NewTokenRow(rc.token_id,
                                          HashRefreshToken(pair.refresh_token),
                                          user.id, now + RefreshExpiration)],
                              obs))
                /\ nextTid' = nextTid + 1
    /\ UNCHANGED <<users, tokens, now, nextUserId, issued, rotated, loggedOut, deactivated>>

(* Statement 2: s.userRepo.GetByEmail, the password and is_active checks   *)
(* and the minting of the pair.                                            *)
AuthenticateUser_Check(p) ==
    AuthenticateUser_CheckWith(p, GetByEmail(proc[p].in.email))

(* Statement 2 over the User Store of the specification. *)
AuthenticateUser_Check_UserStore(p) ==
    AuthenticateUser_CheckWith(p, UserStore_GetByEmail(proc[p].in.email))

(* Statement 3: refreshTokenRepo.Create. *)
AuthenticateUser_Create(p) ==
    /\ proc[p].pc = "a_create"
    /\ LET in  == proc[p].in
           loc == proc[p].loc
       IN  IF TokenInsertOk(tokens, loc.row)
           THEN /\ tokens' = tokens \cup {loc.row}
                /\ issued' = issued \cup {loc.pair}
                /\ Emit(p,
                      Ret("login", in, OK, loc.pair, proc[p].obs))
           ELSE /\ UNCHANGED <<tokens, issued>>
                /\ Emit(p,
                      Ret("login", in,
                          WrapError(WrapError(DbError, "Failed to create refresh token"),
                                    "Failed to store refresh token"),
                          Nil, proc[p].obs))
    /\ UNCHANGED <<users, now, nextUserId, nextTid, rotated, loggedOut, deactivated>>

(* ------------------------- services.RefreshToken ----------------------- *)
(* Token strings a client can present: what was handed out, and a copy of  *)
(* a refresh token re-signed with a key the server does not use.           *)
Presentable ==
    UNION {{pr.refresh_token, pr.access_token,
            [pr.refresh_token EXCEPT !.secret = "attacker-secret"]} : pr \in issued}

(* What holds of the presented token when the request starts. *)
RefreshObs(tok) ==
    [afterUse    |-> \E r \in rotated : r.old = tok.token_id,
     afterLogout |-> tok.token_id \in loggedOut,
     deactivated |-> tok.user_id \in deactivated,
     badToken    |-> ValidateRefreshToken(tok, now) = Nil,
     missing     |-> \A u \in users : u.id # tok.user_id,
     inactive    |-> \E u \in users : u.id = tok.user_id /\ ~u.is_active,
     recordOk    |-> \E r \in tokens : r.token_id = tok.token_id /\ ~r.is_revoked
                                        /\ ~(r.expires_at < now),
     rotateErr   |-> Nil]

(* Steps 1-6, given the claims of ValidateRefreshToken and the struct user *)
(* that s.userRepo.GetByID returned for claims.UserID: is_active check,    *)
(* GenerateTokenPair, hash and expiry of the new token.                    *)
RefreshToken_GetWith(p, tok, claims, user) ==
    /\ Free(p)
    /\ LET in     == [tok |-> tok]
           obs    == RefreshObs(tok)
           pair   == GenerateTokenPair(user, nextTid, now)
           nc     == ValidateRefreshToken(pair.refresh_token, now)
       IN  IF claims = Nil
           THEN /\ Emit(p,
                      Ret("refresh", in, ErrInvalidRefreshToken, Nil, obs))
                /\ UNCHANGED nextTid
           ELSE IF user = Nil
           THEN /\ Emit(p,
                      Ret("refresh", in, ErrInvalidRefreshToken, Nil, obs))
                /\ UNCHANGED nextTid
           ELSE IF ~user.is_active
           THEN /\ Emit(p,
                      Ret("refresh", in, ErrDeactivated, Nil, obs))
                /\ UNCHANGED nextTid
           ELSE /\ nextTid + PendingGen <= MaxTokens
                /\ nextTid' = nextTid + 1
                /\ Emit(p,
                      IF nc = Nil
                      THEN Ret("refresh", in,
                               NewAppError(500, "Failed to validate generated refresh token"),
                               Nil, obs)
                      ELSE Running("r_lock", "refresh", in,
                               [user |-> user, pair |-> pair, old |-> claims.token_id,
                                row |-> NewTokenRow(nc.token_id,
                                           HashRefreshToken(pair.refresh_token),
                                           user.id, now + RefreshExpiration)],
                               obs))
    /\ UNCHANGED <<users, tokens, now, nextUserId, issued, rotated, loggedOut, deactivated>>

(* Steps 1-6: ValidateRefreshToken, userRepo.GetByID and the rest. *)
RefreshToken_Get(p, tok) ==
    LET claims == ValidateRefreshToken(tok, now)
    IN  RefreshToken_GetWith(p, tok, claims, GetByID(claims.user_id))

(* Steps 1-6 over the User Store of the specification. *)
RefreshToken_Get_UserStore(p, tok) ==
    LET claims == ValidateRefreshToken(tok, now)
    IN  RefreshToken_GetWith(p, tok, claims, UserStore_GetByID(claims.user_id))

(* A rotation that tells a missing row from a revoked or expired one. *)
RotateToken_Check_NotFound(row, t) ==
    IF row = Nil THEN NewAppError(404, "Refresh token not found")
    ELSE IF ~RotateTokenValid(row, t) THEN NewAppError(401, "Invalid refresh token")
    ELSE OK

(* What RotateToken returns after its SELECT: sql.ErrNoRows, and a row     *)
(* that is revoked or expired, are both 401 "Invalid refresh token".       *)
RotateToken_Check(row, t) ==
    IF row = Nil THEN NewAppError(401, "Invalid refresh token")
    ELSE IF ~RotateTokenValid(row, t) THEN NewAppError(401, "Invalid refresh token")
    ELSE OK

(* Step 7 of RefreshToken: any error of RotateToken is answered with 401   *)
(* "Invalid refresh token".                                                *)
RefreshToken_Rotated(err) ==
    IF err # OK THEN NewAppError(401, "Invalid refresh token") ELSE OK

(* RotateToken returns err to its caller: to RefreshToken, which answers   *)
(* the request, or to a direct caller of the repository.                   *)
RotateToken_Return(p, err) ==
    LET r == proc[p]
    IN  Ret(r.op, r.in,
            IF r.op = "refresh" THEN RefreshToken_Rotated(err) ELSE err,
            IF r.op = "refresh" /\ err = OK THEN r.loc.pair ELSE Nil,
            [r.obs EXCEPT !.rotateErr = err])

(* The repository is asked to rotate oldTokenID into a new record. *)
RotateToken_Begin(p, oldTokenID, newTokenID, userID, expiresAt) ==
    /\ Free(p)
    /\ Emit(p,
          Running("r_lock", "RotateToken",
                  [old |-> oldTokenID, new |-> newTokenID, user_id |-> userID,
                   expires_at |-> expiresAt],
                  [old |-> oldTokenID,
                   row |-> NewTokenRow(newTokenID, [sha256 |-> newTokenID], userID,
                                       expiresAt)],
                  [rotateErr |-> Nil]))
    /\ UNCHANGED <<users, tokens, now, nextUserId, nextTid, issued, rotated, loggedOut, deactivated>>

(* RotateToken, first half: BEGIN; SELECT ... WHERE token_id = $1 FOR      *)
(* UPDATE (waits while another transaction holds the row), then the        *)
(* revoked/expired test. Every error is returned by RefreshToken as 401.   *)
RotateToken_Lock(p) ==
    /\ proc[p].pc = "r_lock"
    /\ ~Locked(proc[p].loc.old)
    /\ LET err == RotateToken_Check(GetByTokenID(proc[p].loc.old), now)
       IN  Emit(p,
              IF err = OK
              THEN [proc[p] EXCEPT !.pc = "r_commit"]
              ELSE RotateToken_Return(p, err))
    /\ UNCHANGED <<users, tokens, now, nextUserId, nextTid, issued, rotated, loggedOut, deactivated>>

(* A rotation outside a transaction: the old row is revoked before the     *)
(* INSERT and stays revoked when the INSERT fails.                         *)
RotateToken_Commit_NoRollback(p) ==
    /\ proc[p].pc = "r_commit"
    /\ LET loc == proc[p].loc
       IN  IF TokenInsertOk(tokens, loc.row)
           THEN /\ tokens' = Revoke(tokens \cup {loc.row}, loc.old, now)
                /\ issued' = IF proc[p].op = "refresh" THEN issued \cup {loc.pair}
                             ELSE issued
                /\ rotated' = rotated \cup {[old |-> loc.old, new |-> loc.row.token_id]}
                /\ Emit(p, RotateToken_Return(p, OK))
           ELSE /\ tokens' = Revoke(tokens, loc.old, now)
                /\ UNCHANGED <<issued, rotated>>
                /\ Emit(p,
                      RotateToken_Return(p,
                          WrapError(DbError, "Failed to create new refresh token")))
    /\ UNCHANGED <<users, now, nextUserId, nextTid, loggedOut, deactivated>>

(* RotateToken, second half: INSERT the new row, UPDATE the old row as     *)
(* revoked, COMMIT. A failed INSERT rolls the transaction back.            *)
RotateToken_Commit(p) ==
    /\ proc[p].pc = "r_commit"
    /\ LET loc == proc[p].loc
       IN  IF TokenInsertOk(tokens, loc.row)
           THEN /\ tokens' = Revoke(tokens \cup {loc.row}, loc.old, now)
                /\ issued' = IF proc[p].op = "refresh" THEN issued \cup {loc.pair}
                             ELSE issued
                /\ rotated' = rotated \cup {[old |-> loc.old, new |-> loc.row.token_id]}
                /\ Emit(p, RotateToken_Return(p, OK))
           ELSE /\ UNCHANGED <<tokens, issued, rotated>>
                /\ Emit(p,
                      RotateToken_Return(p,
                          WrapError(DbError, "Failed to create new refresh token")))
    /\ UNCHANGED <<users, now, nextUserId, nextTid, loggedOut, deactivated>>

(* The INSERT, the UPDATE or the COMMIT of the transaction fails (the       *)
(* connection is lost): RotateToken returns the message of the statement   *)
(* that failed and the deferred tx.Rollback() discards what was written.   *)
RotateAbortMessages ==
    {"Failed to create new refresh token", "Failed to revoke old refresh token",
     "Failed to commit transaction"}

RotateToken_Abort(p) ==
    /\ proc[p].pc = "r_commit"
    /\ \E message \in RotateAbortMessages :
          Emit(p, RotateToken_Return(p, WrapError(DbError, message)))
    /\ UNCHANGED <<users, tokens, now, nextUserId, nextTid, issued, rotated, loggedOut, deactivated>>

(* The INSERT of the rotation is the statement the database fails to end   *)
(* a deadlock with a DELETE of the user.                                   *)
RotateToken_Deadlock(q) ==
    /\ \E p \in Procs : Deadlocked(p, q)
    /\ Emit(q, RotateToken_Return(q, WrapError(DbError, "Failed to create new refresh token")))
    /\ UNCHANGED <<users, tokens, now, nextUserId, nextTid, issued, rotated, loggedOut, deactivated>>

(* --------------------- refreshTokenRepository.Create ------------------- *)
(* A single INSERT; a duplicate token_id or an unknown user_id fails it.   *)
Create(tokenID, tokenHash, userID, expiresAt) ==
    LET row == NewTokenRow(tokenID, tokenHash, userID, expiresAt)
    IN  /\ IF TokenInsertOk(tokens, row)
           THEN /\ tokens' = tokens \cup {row}
                /\ resp' = [op |-> "Create", in |-> row, res |-> OK]
           ELSE /\ UNCHANGED tokens
                /\ resp' = [op |-> "Create", in |-> row,
                            res |-> WrapError(DbError, "Failed to create refresh token")]
        /\ UNCHANGED <<users, now, nextUserId, nextTid, issued, proc, rotated, loggedOut, deactivated>>

(* ---------------------------- services.Logout -------------------------- *)
(* Logout calls Revoke, which reads time.Now() and sends one UPDATE. When  *)
(* a rotation holds the row FOR UPDATE, the UPDATE waits for the end of    *)
(* that transaction; the time it writes is the time read at the call.      *)
Logout(p, userID, tokenID) ==
    /\ Free(p)
    /\ LET in == [user_id |-> userID, token_id |-> tokenID]
       IN  IF Locked(tokenID)
           THEN /\ Emit(p, Running("lo_wait", "logout", in, [t |-> now], NoObs))
                /\ UNCHANGED <<tokens, loggedOut>>
           ELSE /\ tokens' = Revoke(tokens, tokenID, now)
                /\ loggedOut' = loggedOut \cup {tokenID}
                /\ Emit(p, Ret("logout", in, OK, Nil, NoObs))
    /\ UNCHANGED <<users, now, nextUserId, nextTid, issued, rotated, deactivated>>

(* The row lock is gone: the UPDATE of Revoke writes the row, committed or *)
(* rolled back by the rotation, with the time of the call, and Logout      *)
(* returns.                                                                *)
Logout_Write(p) ==
    /\ proc[p].pc = "lo_wait"
    /\ ~Locked(proc[p].in.token_id)
    /\ tokens' = Revoke(tokens, proc[p].in.token_id, proc[p].loc.t)
    /\ loggedOut' = loggedOut \cup {proc[p].in.token_id}
    /\ Emit(p, Ret("logout", proc[p].in, OK, Nil, NoObs))
    /\ UNCHANGED <<users, now, nextUserId, nextTid, issued, rotated, deactivated>>

(* ------------------ statements that wait for a row lock ---------------- *)
(* What names a row of the table while a statement waits: the columns     *)
(* that no statement changes.                                              *)
RowOf(r) ==
    [token_id |-> r.token_id, user_id |-> r.user_id, expires_at |-> r.expires_at,
     token_hash |-> r.token_hash]

(* The rows of the table, as they are stored now, that a waiting statement *)
(* saw when it began.                                                      *)
SeenRows(seen) == {r \in tokens : RowOf(r) \in seen}

(* ------------------- refreshTokenRepository.DeleteExpired -------------- *)
(* The process that calls DeleteExpired from outside the server. *)
Sweeper == "sweeper"

(* One DELETE (READ COMMITTED): the rows that match the WHERE clause when  *)
(* the statement begins are its candidates, and NOW() is the time of that  *)
(* instant. With no candidate locked the statement deletes them and        *)
(* returns; else it waits for the rotation that holds the row.             *)
DeleteExpired(p) ==
    /\ Free(p)
    /\ \E r \in tokens : DeleteExpiredMatches(r, now)
    /\ LET seen == {r \in tokens : DeleteExpiredMatches(r, now)}
       IN  IF \E r \in seen : Locked(r.token_id)
           THEN /\ Emit(p,
                       Running("x_wait", "DeleteExpired", Nil,
                               [seen |-> {RowOf(r) : r \in seen}, t |-> now], NoObs))
                /\ UNCHANGED tokens
           ELSE /\ tokens' = tokens \ seen
                /\ Emit(p,
                       Ret("DeleteExpired", Nil, OK, Nil, NoObs))
    /\ UNCHANGED <<users, now, nextUserId, nextTid, issued, rotated, loggedOut, deactivated>>

(* The waiting DELETE ends in one of two ways. The locks are gone: each    *)
(* candidate is tested again as it is stored now, by the NOW() of the      *)
(* statement, and deleted when it still matches; a row committed after the *)
(* statement began is no candidate and stays. Or the database ends a       *)
(* deadlock by failing the DELETE: nothing is deleted and DeleteExpired     *)
(* returns the wrapped error.                                              *)
DeleteExpired_Finish(p) ==
    /\ proc[p].pc = "x_wait"
    /\ LET loc   == proc[p].loc
           found == SeenRows(loc.seen)
       IN  \/ /\ \A r \in found : ~Locked(r.token_id)
              /\ tokens' = {r \in tokens : ~(r \in found /\ DeleteExpiredMatches(r, loc.t))}
              /\ Emit(p, Ret("DeleteExpired", Nil, OK, Nil, NoObs))
           \/ /\ UNCHANGED tokens
              /\ Emit(p,
                     Ret("DeleteExpired", Nil,
                         WrapError(DbError, "Failed to delete expired refresh tokens"),
                         Nil, NoObs))
    /\ UNCHANGED <<users, now, nextUserId, nextTid, issued, rotated, loggedOut, deactivated>>

(* ---------------- refreshTokenRepository.RevokeAllForUser -------------- *)
(* A call of RevokeAllForUser reads time.Now() and sends one UPDATE (READ  *)
(* COMMITTED): the unrevoked rows of the user when the statement begins    *)
(* are its candidates. With no candidate locked the statement writes them  *)
(* and returns; else it waits for the rotation that holds the row.         *)
RevokeAllForUser_Exec(p, userID) ==
    /\ Free(p)
    /\ LET seen == {r \in tokens : r.user_id = userID /\ ~r.is_revoked}
       IN  IF \E r \in seen : Locked(r.token_id)
           THEN /\ Emit(p,
                       Running("ra_wait", "RevokeAllForUser", userID,
                               [seen |-> {RowOf(r) : r \in seen}, t |-> now], NoObs))
                /\ UNCHANGED tokens
           ELSE /\ tokens' = RevokeAllForUser(tokens, userID, now)
                /\ Emit(p, Ret("RevokeAllForUser", userID, OK, Nil, NoObs))
    /\ UNCHANGED <<users, now, nextUserId, nextTid, issued, rotated, loggedOut, deactivated>>

(* The waiting UPDATE ends in one of two ways. The locks are gone: each    *)
(* candidate is tested again as it is stored now (a row the rotation has   *)
(* revoked no longer matches) and written with the time of the call; a row *)
(* committed after the statement began, such as the successor the rotation *)
(* inserted, is no candidate and stays. Or the database ends a deadlock by *)
(* failing the UPDATE: nothing is revoked and RevokeAllForUser returns the *)
(* wrapped error.                                                          *)
RevokeAllForUser_Finish(p) ==
    /\ proc[p].pc = "ra_wait"
    /\ LET loc   == proc[p].loc
           found == SeenRows(loc.seen)
       IN  \/ /\ \A r \in found : ~Locked(r.token_id)
              /\ tokens' = (tokens \ found) \cup RevokeAllForUser(found, proc[p].in, loc.t)
              /\ Emit(p, Ret("RevokeAllForUser", proc[p].in, OK, Nil, NoObs))
           \/ /\ UNCHANGED tokens
              /\ Emit(p,
                     Ret("RevokeAllForUser", proc[p].in,
                         WrapError(DbError, "Failed to revoke all refresh tokens for user"),
                         Nil, NoObs))
    /\ UNCHANGED <<users, now, nextUserId, nextTid, issued, rotated, loggedOut, deactivated>>

(* --------------------- refreshTokenRepository.IsValid ------------------ *)
(* SELECT EXISTS(SELECT 1 FROM refresh_tokens WHERE token_id = $1          *)
(* AND is_revoked = false AND expires_at > NOW())                          *)
IsValid(tokenID) ==
    \E r \in tokens : r.token_id = tokenID /\ ~r.is_revoked /\ r.expires_at > now

(* A call of IsValid: a plain SELECT, which takes no lock and waits for    *)
(* none.                                                                   *)
IsValid_Query(tokenID) ==
    /\ resp' = [op |-> "IsValid", in |-> tokenID, res |-> OK, out |-> IsValid(tokenID)]
    /\ UNCHANGED <<users, tokens, now, nextUserId, nextTid, issued, proc, rotated, loggedOut, deactivated>>

(* ------------------------------- the clock ----------------------------- *)
Tick ==
    /\ now < MaxTime
    /\ now' = now + 1
    /\ resp' = Nil
    /\ UNCHANGED <<users, tokens, nextUserId, nextTid, issued, proc, rotated, loggedOut, deactivated>>

(* ------------------------------ handlers ------------------------------- *)
(* A protected route: AuthMiddleware validates the access token of the     *)
(* request and the handler calls the service with the token's claims. A    *)
(* request whose token is refused is answered 401 by the middleware and    *)
(* takes no step of the service.                                           *)
UserHandler_Logout(p, access) ==
    /\ ValidateAccessToken(access, now) # Nil
    /\ Logout(p, access.user_id, access.token_id)

UserHandler_UpdateProfile(p, access, username, email) ==
    /\ ValidateAccessToken(access, now) # Nil
    /\ UpdateUser_Get(p, access.user_id, username, email)

(* The same route over the User Store of the specification. *)
UserHandler_UpdateProfile_UserStore(p, access, username, email) ==
    /\ ValidateAccessToken(access, now) # Nil
    /\ UpdateUser_Get_UserStore(p, access.user_id, username, email)

UserHandler_DeleteProfile(p, access) ==
    /\ ValidateAccessToken(access, now) # Nil
    /\ DeleteUser_Get(p, access.user_id)

(* The id of the account comes from the path, the token is that of any    *)
(* account.                                                                *)
UserHandler_ActivateUser(p, access, id) ==
    /\ ValidateAccessToken(access, now) # Nil
    /\ ActivateUser_Get(p, id)

UserHandler_DeactivateUser(p, access, id) ==
    /\ ValidateAccessToken(access, now) # Nil
    /\ DeactivateUser_Get(p, id)

(* ---------------------------- specification ---------------------------- *)
(* INSERT INTO users (username, email, password, is_active) VALUES         *)
(* ('admin', ...), ('testuser', ...): the two rows of sample data that the *)
(* migration stores; their ids are generated like any other and lie        *)
(* outside the ids the requests of the model name.                         *)
SeedUsers ==
    {NewUserRow(MaxUsers + 1, "admin", "admin@example.com", [bcrypt |-> "password"]),
     NewUserRow(MaxUsers + 2, "testuser", "test@example.com", [bcrypt |-> "password"])}

(* The database as the migration leaves it, and a server that has served   *)
(* no request yet.                                                         *)
Init ==
    /\ users = SeedUsers
    /\ tokens = {}
    /\ now = 0
    /\ nextUserId = 1
    /\ nextTid = 1
    /\ issued = {}
    /\ proc = [p \in Procs \cup {Sweeper} |-> Idle]
    /\ resp = Nil
    /\ rotated = {}
    /\ loggedOut = {}
    /\ deactivated = {}

(* Requests of the session lifecycle of one account, served concurrently  *)
(* while the clock stands: registration, login, refresh with any token a   *)
(* client can present, logout, (de)activation, profile update, deletion.   *)
Next ==
    \/ \E p \in {"p1"} : CreateUser_CheckEmail(p, "alice", "alice@x.com", "Secur3!Pass")
    \/ \E p \in Procs : CreateUser_CheckUsername(p)
    \/ \E p \in Procs : CreateUser_Insert(p)
    \/ \E p \in Procs, em \in Emails, pw \in Passwords : AuthenticateUser_Get_UserStore(p, em, pw)
    \/ \E p \in Procs : AuthenticateUser_Check_UserStore(p)
    \/ \E p \in Procs : AuthenticateUser_Create(p)
    \/ \E p \in Procs, tok \in Presentable : RefreshToken_Get_UserStore(p, tok)
    \/ \E p \in Procs : RotateToken_Lock(p)
    \/ \E p \in Procs : RotateToken_Commit(p)
    \/ \E p \in Procs, pr \in issued :
          Logout(p, pr.access_token.user_id, pr.access_token.token_id)
    \/ \E p \in Procs : Logout_Write(p)
    \/ \E p \in Procs, id \in UserIds : ActivateUser_Get(p, id)
    \/ \E p \in Procs : ActivateUser_Write(p)
    \/ \E p \in Procs, id \in UserIds : DeactivateUser_Get(p, id)
    \/ \E p \in Procs : DeactivateUser_Write(p)
    \/ \E p \in Procs, id \in UserIds : DeleteUser_Get(p, id)
    \/ \E p \in Procs : DeleteUser_Delete(p)
    \/ \E p \in Procs : DeleteUser_Deadlock(p)
    \/ \E p \in Procs : RotateToken_Deadlock(p)
    \/ \E p \in Procs, id \in UserIds : UpdateUser_Get_UserStore(p, id, "", "")
    \/ \E p \in Procs : UpdateUser_Write(p)

Spec == Init /\ [][Next]_vars

(* The routes of the API over time: tokens expire, and the sweep of the    *)
(* token store, which the server itself never calls, is run from outside.  *)
NextTimed ==
    \/ \E p \in {"p1"} : CreateUser_CheckEmail(p, "alice", "alice@x.com", "Secur3!Pass")
    \/ \E p \in Procs : CreateUser_CheckUsername(p)
    \/ \E p \in Procs : CreateUser_Insert(p)
    \/ \E p \in Procs : AuthenticateUser_Get_UserStore(p, "alice@x.com", "Secur3!Pass")
    \/ \E p \in Procs : AuthenticateUser_Check_UserStore(p)
    \/ \E p \in Procs : AuthenticateUser_Create(p)
    \/ \E p \in Procs, pr \in issued : RefreshToken_Get_UserStore(p, pr.refresh_token)
    \/ \E p \in Procs : RotateToken_Lock(p)
    \/ \E p \in Procs : RotateToken_Commit(p)
    \/ \E p \in Procs, pr \in issued : UserHandler_Logout(p, pr.access_token)
    \/ \E p \in Procs : Logout_Write(p)
    \/ \E p \in Procs, pr \in issued : UserHandler_ActivateUser(p, pr.access_token, 1)
    \/ \E p \in Procs : ActivateUser_Write(p)
    \/ \E p \in Procs, pr \in issued : UserHandler_DeactivateUser(p, pr.access_token, 1)
    \/ \E p \in Procs : DeactivateUser_Write(p)
    \/ \E p \in Procs, pr \in issued : UserHandler_UpdateProfile_UserStore(p, pr.access_token, "", "")
    \/ \E p \in Procs : UpdateUser_Write(p)
    \/ \E p \in Procs, pr \in issued : UserHandler_DeleteProfile(p, pr.access_token)
    \/ \E p \in Procs : DeleteUser_Delete(p)
    \/ \E p \in Procs : DeleteUser_Deadlock(p)
    \/ \E p \in Procs : RotateToken_Deadlock(p)
    \/ DeleteExpired(Sweeper)
    \/ DeleteExpired_Finish(Sweeper)
    \/ Tick

SpecTimed == Init /\ [][NextTimed]_vars

(* Passwords of registration requests: one that passes the validation of   *)
(* the request and one that fails it.                                      *)
RegisterPasswords == {"Secur3!Pass", "abcde"}

(* The user registry under concurrent registrations, profile updates and   *)
(* deletions.                                                              *)
NextUsers ==
    \/ \E p \in Procs, un \in Usernames, em \in Emails, pw \in RegisterPasswords :
          CreateUser_CheckEmail(p, un, em, pw)
    \/ \E p \in Procs : CreateUser_CheckUsername(p)
    \/ \E p \in Procs : CreateUser_Insert(p)
    \/ \E p \in Procs, id \in UserIds, un \in Usernames \cup {""}, em \in Emails \cup {""} :
          UpdateUser_Get(p, id, un, em)
    \/ \E p \in Procs : UpdateUser_CheckUsername(p)
    \/ \E p \in Procs : UpdateUser_CheckEmail(p)
    \/ \E p \in Procs : UpdateUser_Write(p)
    \/ \E p \in Procs, id \in UserIds : DeleteUser_Get(p, id)
    \/ \E p \in Procs : DeleteUser_Delete(p)

SpecUsers == Init /\ [][NextUsers]_vars

(* ------------------------------ the profile ---------------------------- *)
(* One account that logs in, is renamed or given another email by          *)
(* UpdateUser, is deactivated, activated and deleted.                      *)
NextProfile ==
    \/ CreateUser_CheckEmail("p1", "alice", "alice@x.com", "Secur3!Pass")
    \/ CreateUser_CheckUsername("p1")
    \/ CreateUser_Insert("p1")
    \/ \E p \in Procs : AuthenticateUser_Get_UserStore(p, "alice@x.com", "Secur3!Pass")
    \/ \E p \in Procs : AuthenticateUser_Check_UserStore(p)
    \/ \E p \in Procs : AuthenticateUser_Create(p)
    \/ \E pr \in issued : RefreshToken_Get_UserStore("p2", pr.refresh_token)
    \/ RotateToken_Lock("p2")
    \/ RotateToken_Commit("p2")
    \/ \E p \in Procs, un \in {"", "bob"}, em \in {"", "bob@x.com"} :
          UpdateUser_Get_UserStore(p, 1, un, em)
    \/ \E p \in Procs : UpdateUser_CheckUsername(p)
    \/ \E p \in Procs : UpdateUser_CheckEmail(p)
    \/ \E p \in Procs : UpdateUser_Write(p)
    \/ ActivateUser_Get("p1", 1)
    \/ ActivateUser_Write("p1")
    \/ DeactivateUser_Get("p1", 1)
    \/ DeactivateUser_Write("p1")
    \/ DeleteUser_Get("p1", 1)
    \/ DeleteUser_Delete("p1")
    \/ DeleteUser_Deadlock("p1")
    \/ RotateToken_Deadlock("p2")
SpecProfile == Init /\ [][NextProfile]_vars

(* ------------------------------ the sessions --------------------------- *)
(* Two accounts with sessions of their own: logins, refreshes, and logouts *)
(* called with any user id and any token id.                               *)
NextSessions ==
    \/ CreateUser_CheckEmail("p1", "alice", "alice@x.com", "Secur3!Pass")
    \/ CreateUser_CheckEmail("p1", "bob", "bob@x.com", "Secur3!Pass")
    \/ CreateUser_CheckUsername("p1")
    \/ CreateUser_Insert("p1")
    \/ \E em \in Emails : AuthenticateUser_Get_UserStore("p1", em, "Secur3!Pass")
    \/ AuthenticateUser_Check_UserStore("p1")
    \/ AuthenticateUser_Create("p1")
    \/ \E p \in Procs, pr \in issued : RefreshToken_Get_UserStore(p, pr.refresh_token)
    \/ \E p \in Procs : RotateToken_Lock(p)
    \/ \E p \in Procs : RotateToken_Commit(p)
    \/ \E userID \in UserIds, tokenID \in TokenIds : Logout("p2", userID, tokenID)
    \/ Logout_Write("p2")
SpecSessions == Init /\ [][NextSessions]_vars

(* ------------------------------ the server ----------------------------- *)
(* What the process started by main does on its own and for its clients:   *)
(* it serves the routes; it starts no goroutine and no timer that calls    *)
(* DeleteExpired, and nothing reads SecurityConfig.RefreshTokenCleanup.    *)
NextServer ==
    \/ CreateUser_CheckEmail("p1", "alice", "alice@x.com", "Secur3!Pass")
    \/ \E p \in Procs : CreateUser_CheckUsername(p)
    \/ \E p \in Procs : CreateUser_Insert(p)
    \/ \E p \in Procs : AuthenticateUser_Get_UserStore(p, "alice@x.com", "Secur3!Pass")
    \/ \E p \in Procs : AuthenticateUser_Check_UserStore(p)
    \/ \E p \in Procs : AuthenticateUser_Create(p)
    \/ \E p \in Procs, pr \in issued : RefreshToken_Get_UserStore(p, pr.refresh_token)
    \/ \E p \in Procs : RotateToken_Lock(p)
    \/ \E p \in Procs : RotateToken_Commit(p)
    \/ \E p \in Procs, pr \in issued : UserHandler_Logout(p, pr.access_token)
    \/ \E p \in Procs : Logout_Write(p)
    \/ \E pr \in issued : UserHandler_UpdateProfile_UserStore("p2", pr.access_token, "", "")
    \/ UpdateUser_Write("p2")
    \/ \E pr \in issued : UserHandler_DeleteProfile("p2", pr.access_token)
    \/ DeleteUser_Delete("p2")
    \/ DeleteUser_Deadlock("p2")
    \/ RotateToken_Deadlock("p1")
    \/ \E pr \in issued : UserHandler_ActivateUser("p2", pr.access_token, 1)
    \/ ActivateUser_Write("p2")
    \/ \E pr \in issued : UserHandler_DeactivateUser("p2", pr.access_token, 1)
    \/ DeactivateUser_Write("p2")
    \/ Tick

(* A request that has begun is served to its end, and time passes. *)
ServerFairness ==
    /\ WF_vars(Tick)
    /\ \A p \in Procs :
          WF_vars(\/ CreateUser_CheckUsername(p) \/ CreateUser_Insert(p)
                  \/ AuthenticateUser_Check_UserStore(p) \/ AuthenticateUser_Create(p)
                  \/ RotateToken_Lock(p) \/ RotateToken_Commit(p)
                  \/ UpdateUser_Write(p) \/ DeleteUser_Delete(p)
                  \/ ActivateUser_Write(p) \/ DeactivateUser_Write(p)
                  \/ Logout_Write(p))

SpecServer == Init /\ [][NextServer]_vars /\ ServerFairness

(* ---------------------------- password policy -------------------------- *)
(* Passwords given to the policy, as a head, a middle and a tail: with and *)
(* without each character class, too short, too long, with a forbidden     *)
(* word, a run of one character, a sequential substring, a repeated block. *)
PolicyHeads ==
    {<<"X", "k">>, <<"x", "k">>, <<"X", "K">>, <<"Q", "w">>, <<"7", "!">>}

PolicyMids ==
    {<<"7", "!">>, <<"!", "?">>, <<"7", "9">>, <<"!", "!">>, <<"7", " ">>, <<"7", "$">>,
     <<"7", GraveAccent>>}

LongTail == [i \in 1..130 |-> IF i % 3 = 0 THEN "m" ELSE IF i % 3 = 1 THEN "Z" ELSE "p"]

PolicyTails ==
    {<<"m", "Z", "p", "q">>, <<"M", "Z", "P", "Q">>, <<"m", "z", "p", "q">>,
     <<"T", "e", "s", "t">>, <<"a", "b", "c", "d">>, <<"m", "Z">>,
     <<"Z", "Z", "Z", "Z">>, <<"m", "Z", "m", "Z">>, LongTail}

PolicyInputs == {h \o m \o t : h \in PolicyHeads, m \in PolicyMids, t \in PolicyTails}

(* The policy is asked about a password. *)
Policy_ValidatePassword(cs) ==
    /\ resp' = [op |-> "ValidatePassword", in |-> [password |-> cs],
                res |-> PasswordPolicy_ValidatePassword(cs)]
    /\ UNCHANGED <<users, tokens, now, nextUserId, nextTid, issued, proc, rotated,
                   loggedOut, deactivated>>

NextPassword == \E cs \in PolicyInputs : Policy_ValidatePassword(cs)
SpecPassword == Init /\ [][NextPassword]_vars

(* ------------------------- the refresh token store --------------------- *)
(* Token ids and lifetimes the callers of the repository pass: the refresh *)
(* lifetime of the configuration and a longer one.                         *)
StoreTokenIds == 1..2

LongExpiration == MaxTime

StoreLifetimes == {RefreshExpiration, LongExpiration}

(* The repository under direct calls by two callers, one that rotates and *)
(* one that revokes and sweeps, with any token id, known or not, fresh or  *)
(* already stored, while the clock runs.                                   *)
NextStore ==
    \/ CreateUser_CheckEmail("p1", "alice", "alice@x.com", "Secur3!Pass")
    \/ CreateUser_CheckUsername("p1")
    \/ CreateUser_Insert("p1")
    \/ \E tokenID \in StoreTokenIds, e \in StoreLifetimes :
          Create(tokenID, [sha256 |-> tokenID], 1, now + e)
    \/ \E old \in StoreTokenIds : \E new \in StoreTokenIds \ {old} :
          RotateToken_Begin("p1", old, new, 1, now + RefreshExpiration)
    \/ RotateToken_Lock("p1")
    \/ RotateToken_Commit("p1")
    \/ RotateToken_Abort("p1")
    \/ \E tokenID \in StoreTokenIds : Logout("p2", 1, tokenID)
    \/ Logout_Write("p2")
    \/ \E tokenID \in StoreTokenIds : IsValid_Query(tokenID)
    \/ RevokeAllForUser_Exec("p2", 1)
    \/ RevokeAllForUser_Finish("p2")
    \/ DeleteExpired("p2")
    \/ DeleteExpired_Finish("p2")
    \/ Tick
SpecStore == Init /\ [][NextStore]_vars

(* ------------------------------ token codec ---------------------------- *)
(* Managers a deployment can be configured with: the configured one, one   *)
(* whose access and refresh secrets are equal, one with other secrets,     *)
(* one with another issuer and one with another audience.                  *)
Managers ==
    {jwtManager,
     NewJWTManager("shared-secret", "shared-secret", Issuer, Audience,
                   AccessExpiration, RefreshExpiration),
     NewJWTManager("other-access-secret", "other-refresh-secret", Issuer, Audience,
                   AccessExpiration, RefreshExpiration),
     NewJWTManager(AccessSecretKey, RefreshSecretKey, "other-issuer", Audience,
                   AccessExpiration, RefreshExpiration),
     NewJWTManager(AccessSecretKey, RefreshSecretKey, Issuer, "other-audience",
                   AccessExpiration, RefreshExpiration)}

(* Users a token pair is generated for. *)
CodecUsers ==
    {[id |-> i, username |-> CHOOSE un \in Usernames : TRUE] : i \in UserIds}
        \cup {[id |-> 1, username |-> un] : un \in Usernames}

(* Manager j generates a token pair for user u; the pair is handed out. *)
Codec_GenerateTokenPair(j, u, tokenID) ==
    /\ issued' = {JWTManager_GenerateTokenPair(j, u, tokenID, now)}
    /\ resp' = Nil
    /\ UNCHANGED <<users, tokens, now, nextUserId, nextTid, proc, rotated, loggedOut,
                   deactivated>>

(* Manager j is given a token string as an access token. *)
Codec_ValidateAccessToken(j, tok) ==
    /\ resp' = [op |-> "ValidateAccessToken", in |-> [j |-> j, tok |-> tok],
                res |-> JWTManager_ValidateAccessToken(j, tok, now)]
    /\ UNCHANGED <<users, tokens, now, nextUserId, nextTid, issued, proc, rotated,
                   loggedOut, deactivated>>

(* Manager j is given a token string as a refresh token. *)
Codec_ValidateRefreshToken(j, tok) ==
    /\ resp' = [op |-> "ValidateRefreshToken", in |-> [j |-> j, tok |-> tok],
                res |-> JWTManager_ValidateRefreshToken(j, tok, now)]
    /\ UNCHANGED <<users, tokens, now, nextUserId, nextTid, issued, proc, rotated,
                   loggedOut, deactivated>>

(* Token pairs are generated and their tokens validated, by the same or by *)
(* another manager, as access or as refresh tokens, while the clock runs.  *)
NextCodec ==
    \/ \E j \in Managers, u \in CodecUsers, tokenID \in TokenIds :
          Codec_GenerateTokenPair(j, u, tokenID)
    \/ \E j \in Managers, pr \in issued :
          \E tok \in {pr.access_token, pr.refresh_token} : Codec_ValidateAccessToken(j, tok)
    \/ \E j \in Managers, pr \in issued :
          \E tok \in {pr.access_token, pr.refresh_token} : Codec_ValidateRefreshToken(j, tok)
    \/ Tick
SpecCodec == Init /\ [][NextCodec]_vars

(* Registration, login and (de)activation over userRepository.GetByEmail   *)
(* as written.                                                             *)
NextRepo ==
    \/ \E p \in Procs, un \in Usernames, em \in Emails :
          CreateUser_CheckEmail(p, un, em, "Secur3!Pass")
    \/ \E p \in Procs : CreateUser_CheckUsername(p)
    \/ \E p \in Procs : CreateUser_Insert(p)
    \/ \E p \in Procs, em \in Emails, pw \in Passwords : AuthenticateUser_Get(p, em, pw)
    \/ \E p \in Procs : AuthenticateUser_Check(p)
    \/ \E p \in Procs, id \in UserIds : ActivateUser_Get(p, id)
    \/ \E p \in Procs : ActivateUser_Write(p)
    \/ \E p \in Procs, id \in UserIds : DeactivateUser_Get(p, id)
    \/ \E p \in Procs : DeactivateUser_Write(p)

SpecRepo == Init /\ [][NextRepo]_vars

(* The service over userRepository as written, for one account. No login   *)
(* succeeds over it, so the session of the account is stored by direct     *)
(* calls: GenerateTokenPair for the registered user and                    *)
(* refreshTokenRepository.Create for the pair, as AuthenticateUser does    *)
(* after its is_active check; the repository's RotateToken is called       *)
(* directly as well. Refreshes are requested by two concurrent clients,    *)
(* the profile is updated, the account deactivated and activated.          *)
NextScan ==
    \/ CreateUser_CheckEmail("p1", "alice", "alice@x.com", "Secur3!Pass")
    \/ CreateUser_CheckUsername("p1")
    \/ CreateUser_Insert("p1")
    \/ \E u \in users \ SeedUsers, tokenID \in StoreTokenIds :
          Codec_GenerateTokenPair(jwtManager, [id |-> u.id, username |-> u.username],
                                  tokenID)
    \/ \E pr \in issued :
          Create(pr.refresh_token.token_id, HashRefreshToken(pr.refresh_token),
                 pr.refresh_token.user_id, now + RefreshExpiration)
    \/ \E p \in Procs, pr \in issued : RefreshToken_Get(p, pr.refresh_token)
    \/ \E old \in StoreTokenIds : \E new \in TokenIds \ {old} :
          RotateToken_Begin("p2", old, new, 1, now + RefreshExpiration)
    \/ \E p \in Procs : RotateToken_Lock(p)
    \/ \E p \in Procs : RotateToken_Commit(p)
    \/ \E p \in Procs : UpdateUser_Get(p, 1, "", "")
    \/ \E p \in Procs : UpdateUser_Write(p)
    \/ \E p \in Procs : DeactivateUser_Get(p, 1)
    \/ \E p \in Procs : DeactivateUser_Write(p)
    \/ \E p \in Procs : ActivateUser_Get(p, 1)
    \/ \E p \in Procs : ActivateUser_Write(p)

SpecScan == Init /\ [][NextScan]_vars

(* Logins over time, over the User Store of the specification: with a      *)
(* right and a wrong password, for a known and an unknown email, for an    *)
(* account that is deactivated, activated or deleted meanwhile, while the  *)
(* clock runs between the statements of a request.                         *)
NextLogin ==
    \/ CreateUser_CheckEmail("p1", "alice", "alice@x.com", "Secur3!Pass")
    \/ CreateUser_CheckUsername("p1")
    \/ CreateUser_Insert("p1")
    \/ \E p \in Procs, em \in Emails, pw \in Passwords :
          AuthenticateUser_Get_UserStore(p, em, pw)
    \/ \E p \in Procs : AuthenticateUser_Check_UserStore(p)
    \/ \E p \in Procs : AuthenticateUser_Create(p)
    \/ DeactivateUser_Get("p2", 1)
    \/ DeactivateUser_Write("p2")
    \/ ActivateUser_Get("p2", 1)
    \/ ActivateUser_Write("p2")
    \/ DeleteUser_Get("p2", 1)
    \/ DeleteUser_Delete("p2")
    \/ Tick

SpecLogin == Init /\ [][NextLogin]_vars

(* Registrations with any password a client may send. *)
NextPolicy ==
    \/ \E p \in Procs, un \in Usernames, em \in Emails, pw \in PolicyPasswords :
          CreateUser_CheckEmail(p, un, em, pw)
    \/ \E p \in Procs : CreateUser_CheckUsername(p)
    \/ \E p \in Procs : CreateUser_Insert(p)
    \/ \E p \in Procs, id \in UserIds : DeleteUser_Get(p, id)
    \/ \E p \in Procs : DeleteUser_Delete(p)

SpecPolicy == Init /\ [][NextPolicy]_vars

(* ------------------------------- claims -------------------------------- *)
(* The latest step answered a refresh request. *)
RefreshAnswered == resp # Nil /\ resp.op = "refresh"

(* The refresh request began with a token that was valid: well signed and  *)
(* unexpired, its record unrevoked and unexpired, its user present and     *)
(* active.                                                                 *)
BeganValid(r) ==
    /\ ~r.obs.badToken
    /\ r.obs.recordOk
    /\ ~r.obs.missing
    /\ ~r.obs.inactive

(* C1: refresh requests that begin with the same valid token T0 and race   *)
(* have exactly one winner: each is answered either with a new pair or     *)
(* with 401 "Invalid refresh token", a 401 is given only when another      *)
(* request has rotated T0, and T0 is rotated at most once.                 *)
C1_ExactlyOneRotation ==
    /\ \A r1, r2 \in rotated : r1.old = r2.old => r1 = r2
    /\ (RefreshAnswered /\ BeganValid(resp)) =>
          /\ resp.res \in {OK, ErrInvalidRefreshToken}
          /\ resp.res = OK => resp.out \in issued
          /\ \E r \in rotated : r.old = resp.in.tok.token_id

(* A refresh that began with a valid token nobody had used: well signed,   *)
(* its record stored, unrevoked and unexpired, its user stored active. The *)
(* request has been answered and the record is as it was.                  *)
C1_Witness ==
    /\ RefreshAnswered
    /\ BeganValid(resp)
    /\ ~resp.obs.afterUse
    /\ resp.res = ErrDeactivated
    /\ \E r \in tokens : r.token_id = resp.in.tok.token_id /\ ~r.is_revoked
    /\ \E u \in users : u.id = resp.in.tok.user_id /\ u.is_active

(* C2: a refresh request that begins after its token was used for a        *)
(* successful refresh fails, whatever happened in between.                 *)
C2_SingleUse ==
    (RefreshAnswered /\ resp.obs.afterUse) => (resp.res # OK /\ resp.out = Nil)

(* A used token, still well signed and unexpired, is presented again and   *)
(* refused.                                                                *)
C2_Witness ==
    /\ RefreshAnswered
    /\ resp.obs.afterUse
    /\ ~resp.obs.badToken
    /\ resp.res = ErrInvalidRefreshToken

(* The latest step answered a login request. *)
LoginAnswered == resp # Nil /\ resp.op = "login"

(* C3: a refresh request that begins after Logout of its token_id has      *)
(* returned is answered 401 "Invalid refresh token" and gets no pair.      *)
C3_LogoutBlocksRefresh ==
    (RefreshAnswered /\ resp.obs.afterLogout) =>
        (resp.res = ErrInvalidRefreshToken /\ resp.out = Nil)

(* A refresh after logout that is answered 401. *)
C3_Witness ==
    /\ RefreshAnswered
    /\ resp.obs.afterLogout
    /\ ~resp.obs.badToken
    /\ resp.res = ErrInvalidRefreshToken

(* C4: a login with an email nobody has and a login with a wrong password  *)
(* are both answered with the one Unauthorized error (401 "Unauthorized"). *)
C4_SameUnauthorized ==
    (LoginAnswered /\ (~resp.obs.found \/ resp.obs.wrongPassword)) =>
        resp.res = ErrUnauthorized

(* A login with a wrong password, answered 401. *)
C4_Witness ==
    /\ LoginAnswered
    /\ resp.obs.wrongPassword
    /\ resp.res = ErrUnauthorized

(* C5: a login with the right password for a user whose is_active flag is  *)
(* false is answered 403 without a token pair, and the step that answers   *)
(* leaves the refresh-token store and the set of issued pairs as they were.*)
C5_InactiveLoginForbidden ==
    [][(resp' # Nil /\ resp'.op = "login"
          /\ resp'.obs.inactive /\ ~resp'.obs.wrongPassword) =>
       (/\ resp'.res.code = 403
        /\ resp'.out = Nil
        /\ tokens' = tokens
        /\ issued' = issued)]_vars

(* A deactivated user who holds a session logs in with the right password  *)
(* and is refused.                                                         *)
C5_Witness ==
    /\ LoginAnswered
    /\ resp.obs.inactive
    /\ ~resp.obs.wrongPassword
    /\ resp.res.code = 403
    /\ tokens # {}

(* C6: a refresh with a well-signed, unexpired token whose user is missing *)
(* or inactive is answered with the same 401 "Invalid refresh token" as a  *)
(* refresh with a bad signature or a revoked record.                       *)
C6_GenericRefreshFailure ==
    (RefreshAnswered /\ ~resp.obs.badToken
        /\ (resp.obs.missing \/ resp.obs.inactive)) =>
        resp.res = ErrInvalidRefreshToken

(* A refresh for a deleted user, answered 401. *)
C6_Witness ==
    /\ RefreshAnswered
    /\ ~resp.obs.badToken
    /\ resp.obs.missing
    /\ resp.res = ErrInvalidRefreshToken

(* C7: a refresh request that begins while its user is deactivated (after  *)
(* DeactivateUser returned, before any ActivateUser) fails, and the step   *)
(* that answers it leaves the refresh-token store as it was.               *)
C7_DeactivatedBlocksRefresh ==
    [][(resp' # Nil /\ resp'.op = "refresh" /\ resp'.obs.deactivated) =>
       (resp'.res # OK /\ tokens' = tokens)]_vars

(* A refresh for a deactivated user, with a well-signed token whose record *)
(* is stored, unrevoked and unexpired, has been refused, and the record is *)
(* still unrevoked.                                                        *)
C7_Witness ==
    /\ RefreshAnswered
    /\ resp.obs.deactivated
    /\ ~resp.obs.badToken
    /\ resp.obs.recordOk
    /\ resp.res = ErrDeactivated
    /\ \E r \in tokens : r.token_id = resp.in.tok.token_id /\ ~r.is_revoked

(* C8: the step that answers a successful DeactivateUser(u) leaves every   *)
(* refresh-token record as it was and changes no user field but u's        *)
(* is_active; and while a user is deactivated, each access token issued to *)
(* that user passes ValidateAccessToken and the middleware until it        *)
(* expires.                                                                *)
C8_DeactivateFrame ==
    [][/\ (resp' # Nil /\ resp'.op = "deactivate" /\ resp'.res = OK) =>
            /\ tokens' = tokens
            /\ Cardinality(users') = Cardinality(users)
            /\ \A u \in users :
                  IF u.id = resp'.in.id
                  THEN [u EXCEPT !.is_active = FALSE] \in users'
                  ELSE u \in users'
       /\ \A pr \in issued' :
             (pr.access_token.user_id \in deactivated'
                 /\ now' < pr.access_token.exp) =>
             (/\ ValidateAccessToken(pr.access_token, now') # Nil
              /\ AuthMiddleware(pr.access_token, now') = OK)]_vars

(* A user with a live session and an unexpired access token has just been  *)
(* deactivated.                                                            *)
C8_Witness ==
    /\ resp # Nil
    /\ resp.op = "deactivate"
    /\ resp.res = OK
    /\ \E pr \in issued :
          /\ pr.access_token.user_id = resp.in.id
          /\ now < pr.access_token.exp
          /\ AuthMiddleware(pr.access_token, now) = OK
    /\ \E r \in tokens : r.user_id = resp.in.id /\ ~r.is_revoked

(* C9: a registration called while a user with the same email or with the *)
(* same username exists is answered 409, and the step that answers it      *)
(* leaves the users as they were.                                          *)
C9_RegisterConflictAtCall ==
    [][(resp' # Nil /\ resp'.op = "register" /\ resp'.obs.takenAtCall) =>
       (/\ resp'.res.code = 409
        /\ resp'.out = Nil
        /\ users' = users)]_vars

(* C9, amended: a registration that passes the validation of its request   *)
(* and whose existence query finds a user with the same email, or, that    *)
(* query finding none, a user with the same username, is answered 409; a   *)
(* registration that fails the validation is answered 400, whatever is     *)
(* taken; in both cases the step that answers leaves the users as they     *)
(* were.                                                                   *)
C9_RegisterConflict ==
    [][(resp' # Nil /\ resp'.op = "register") =>
          /\ (validatePassword(resp'.in.password)
                 /\ (resp'.obs.emailTaken \/ resp'.obs.usernameTaken)) =>
                (/\ resp'.res.code = 409
                 /\ resp'.out = Nil
                 /\ users' = users)
          /\ ~validatePassword(resp'.in.password) =>
                (/\ resp'.res.code = 400
                 /\ resp'.out = Nil
                 /\ users' = users)]_vars

(* A valid registration refused for its username (its email was free). *)
C9_Witness ==
    /\ resp # Nil
    /\ resp.op = "register"
    /\ validatePassword(resp.in.password)
    /\ ~resp.obs.emailTaken
    /\ resp.obs.takenAtCall
    /\ resp.obs.usernameTaken
    /\ resp.res = ErrUsernameTaken
    /\ \E u \in users : u.username = resp.in.username

(* C10: no two stored users share a username, an email or an id. *)
C10_UniqueUsers ==
    \A u, v \in users :
        u # v => (u.username # v.username /\ u.email # v.email /\ u.id # v.id)

(* Two users are stored and a request that passed its existence pre-check  *)
(* has just been stopped by the table's constraint.                        *)
C10_Witness ==
    /\ Cardinality(users \ SeedUsers) = 2
    /\ resp # Nil
    /\ resp.op \in {"register", "update"}
    /\ resp.res.code = 500

(* C11: a login with the right password for a registered user who is       *)
(* stored active is not answered 403.                                      *)
C11_RegisteredUserIsActive ==
    (LoginAnswered /\ resp.obs.found /\ ~resp.obs.wrongPassword
        /\ ~resp.obs.inactive) =>
        resp.res.code # 403

(* A registered user, stored active (is_active by the column default),     *)
(* logs in with the right password.                                        *)
C11_Witness ==
    /\ LoginAnswered
    /\ resp.obs.found
    /\ ~resp.obs.wrongPassword
    /\ ~resp.obs.inactive
    /\ \E u \in users : u.email = resp.in.email /\ u.is_active

(* ValidatePassword returns an error for the password. *)
PolicyRefuses(pw) == ValidatePassword(pw) \notin {"ok", RegexpPanic}

(* C12: a registration with a password that ValidatePassword returns an    *)
(* error for is answered 400, and no registered user has such a password.  *)
C12_RegisterEnforcesPolicy ==
    /\ (resp # Nil /\ resp.op = "register" /\ PolicyRefuses(resp.in.password)) =>
          resp.res.code = 400
    /\ \A u \in users \ SeedUsers : ~PolicyRefuses(u.password.bcrypt)

(* A registration refused for its password. *)
C12_Witness ==
    /\ resp # Nil
    /\ resp.op = "register"
    /\ PolicyRefuses(resp.in.password)
    /\ resp.res = ErrValidation


(* The response of manager j validating, as an access (refresh) token, the *)
(* token tok.                                                              *)
ValidatedAs(op, j, tok) ==
    resp # Nil /\ resp.op = op /\ resp.in.j = j /\ resp.in.tok = tok

(* C13: for every user u, manager and token_id, validating the access      *)
(* token of GenerateTokenPair(u) with ValidateAccessToken of the same      *)
(* manager, before it expires, returns claims with u's user_id and         *)
(* username and type "access"; validating the refresh token of the pair    *)
(* with ValidateRefreshToken returns them with type "refresh".             *)
C13_TokenRoundTrip ==
    \A j \in Managers, u \in CodecUsers, tokenID \in TokenIds, t \in 0..now :
        LET pair == JWTManager_GenerateTokenPair(j, u, tokenID, t)
        IN /\ (ValidatedAs("ValidateAccessToken", j, pair.access_token)
                  /\ now < t + j.accessDuration) =>
                 /\ resp.res # Nil
                 /\ resp.res.user_id = u.id
                 /\ resp.res.username = u.username
                 /\ resp.res.type = "access"
           /\ (ValidatedAs("ValidateRefreshToken", j, pair.refresh_token)
                  /\ now < t + j.refreshDuration) =>
                 /\ resp.res # Nil
                 /\ resp.res.user_id = u.id
                 /\ resp.res.username = u.username
                 /\ resp.res.type = "refresh"

C13_Witness ==
    \E pr \in issued :
        /\ pr.refresh_token.nbf < now
        /\ ValidatedAs("ValidateRefreshToken", jwtManager, pr.refresh_token)
        /\ pr.refresh_token.secret = RefreshSecretKey
        /\ resp.res # Nil /\ resp.res.type = "refresh"
        /\ resp.res.user_id = 2 /\ resp.res.username = pr.refresh_token.username

(* The secret manager j verifies the signature with in the validation     *)
(* whose response is resp.                                                 *)
ValidationSecret ==
    IF resp.op = "ValidateAccessToken" THEN resp.in.j.accessSecretKey
    ELSE resp.in.j.refreshSecretKey

CodecAnswered ==
    resp # Nil /\ resp.op \in {"ValidateAccessToken", "ValidateRefreshToken"}

(* C14: ValidateAccessToken and ValidateRefreshToken reject every token    *)
(* that was signed with another secret than the one the manager expects,   *)
(* or whose issuer or audience differs from the manager's, or whose expiry *)
(* has passed; a rejection returns no claims.                              *)
C14_ForeignOrExpiredRejected ==
    (CodecAnswered /\ (\/ resp.in.tok.secret # ValidationSecret
                       \/ resp.in.tok.iss # resp.in.j.issuer
                       \/ resp.in.tok.aud # resp.in.j.audience
                       \/ resp.in.tok.exp < now)) =>
        resp.res = Nil

(* A token of another issuer, correctly signed and typed and not expired,  *)
(* has been rejected.                                                      *)
C14_Witness ==
    /\ CodecAnswered /\ resp.op = "ValidateAccessToken"
    /\ resp.in.tok.secret = ValidationSecret
    /\ resp.in.tok.type = "access"
    /\ resp.in.tok.aud = resp.in.j.audience
    /\ now < resp.in.tok.exp
    /\ resp.in.tok.iss # resp.in.j.issuer
    /\ resp.res = Nil

(* The access (refresh) tokens the managers generate. *)
AccessTokens ==
    {JWTManager_GenerateTokenPair(j, u, tokenID, t).access_token :
        j \in Managers, u \in CodecUsers, tokenID \in TokenIds, t \in 0..now}

RefreshTokens ==
    {JWTManager_GenerateTokenPair(j, u, tokenID, t).refresh_token :
        j \in Managers, u \in CodecUsers, tokenID \in TokenIds, t \in 0..now}

(* C15: ValidateRefreshToken never accepts an access token and             *)
(* ValidateAccessToken never accepts a refresh token, whatever the         *)
(* secrets of the manager are, equal access and refresh secrets included.  *)
C15_TokenTypesSeparated ==
    /\ (CodecAnswered /\ resp.op = "ValidateRefreshToken"
           /\ resp.in.tok \in AccessTokens) => resp.res = Nil
    /\ (CodecAnswered /\ resp.op = "ValidateAccessToken"
           /\ resp.in.tok \in RefreshTokens) => resp.res = Nil

(* A manager whose two secrets are equal has rejected, as a refresh token, *)
(* an unexpired access token it generated itself.                          *)
C15_Witness ==
    /\ CodecAnswered /\ resp.op = "ValidateRefreshToken"
    /\ resp.in.j.accessSecretKey = resp.in.j.refreshSecretKey
    /\ resp.in.tok \in AccessTokens
    /\ resp.in.tok.secret = resp.in.j.refreshSecretKey
    /\ resp.in.tok.iss = resp.in.j.issuer /\ resp.in.tok.aud = resp.in.j.audience
    /\ now < resp.in.tok.exp
    /\ resp.res = Nil

(* The repository's RotateToken has returned in this state. *)
RotateReturned ==
    resp # Nil /\ resp.op \in {"RotateToken", "refresh"} /\ resp.obs.rotateErr # Nil

(* C16: in every reachable state the store holds at most one record per    *)
(* token_id; a Create or a RotateToken whose new token_id is already       *)
(* stored fails and inserts nothing.                                       *)
C16_TokenIdUnique ==
    /\ [](\A r1 \in tokens, r2 \in tokens : r1.token_id = r2.token_id => r1 = r2)
    /\ [][/\ (resp' # Nil /\ resp'.op = "Create"
                 /\ \E r \in tokens : r.token_id = resp'.in.token_id) =>
                (resp'.res # OK /\ tokens' = tokens)
          /\ (RotateReturned' /\ resp'.op = "RotateToken"
                 /\ \E r \in tokens : r.token_id = resp'.in.new) =>
                (resp'.obs.rotateErr # OK /\ tokens' = tokens)]_vars

(* A Create for a registered user and a token_id that is already stored   *)
(* has failed, and the store still holds the one record of that token_id.  *)
C16_Witness ==
    /\ resp # Nil /\ resp.op = "Create" /\ resp.res.code = 500
    /\ \E u \in users : u.id = resp.in.user_id
    /\ Cardinality({r \in tokens : r.token_id = resp.in.token_id}) = 1
    /\ resp.in \notin tokens

(* C17: a RotateToken that fails at any step (old record missing, revoked  *)
(* or expired; INSERT refused; UPDATE or COMMIT failed) leaves the store   *)
(* as it was, and the step that makes the new record visible also leaves   *)
(* the old record revoked: no state shows the new record of a rotation     *)
(* beside its unrevoked old record.                                        *)
C17_RotateTokenAtomic ==
    [][/\ (RotateReturned' /\ resp'.obs.rotateErr # OK) => tokens' = tokens
       /\ \A p \in Procs :
             (/\ proc[p].pc \in {"r_lock", "r_commit"}
              /\ proc'[p] # proc[p]
              /\ tokens' # tokens) =>
                 /\ RotateReturned' /\ resp'.obs.rotateErr = OK
                 /\ proc[p].loc.row \in tokens'
                 /\ \A r \in tokens' : r.token_id = proc[p].loc.old => r.is_revoked]_vars

(* A rotation towards a token_id that is already stored has failed at its  *)
(* INSERT, and the old record is still there, unrevoked.                   *)
C17_Witness ==
    /\ RotateReturned /\ resp.op = "RotateToken"
    /\ resp.obs.rotateErr = NewAppError(500, "Failed to create new refresh token")
    /\ resp.in.old # resp.in.new
    /\ \E r \in tokens : r.token_id = resp.in.new
    /\ \E r \in tokens : r.token_id = resp.in.old /\ ~r.is_revoked

(* C18: when RotateToken's SELECT finds no record for the old token_id, a  *)
(* revoked record or an expired record, RotateToken returns, in all three  *)
(* cases, the same 401 "Invalid refresh token" error, and Refresh answers  *)
(* the request with that error.                                            *)
C18_RotateTokenGenericError ==
    [][\A p \in Procs :
          (/\ proc[p].pc = "r_lock"
           /\ proc'[p] # proc[p]
           /\ LET old == proc[p].loc.old
              IN  \/ \A r \in tokens : r.token_id # old
                  \/ \E r \in tokens : r.token_id = old /\ r.is_revoked
                  \/ \E r \in tokens : r.token_id = old /\ r.expires_at < now) =>
              /\ RotateReturned'
              /\ resp'.in = proc[p].in
              /\ resp'.obs.rotateErr = [code |-> 401, msg |-> "Invalid refresh token"]
              /\ (resp'.op = "refresh" => resp'.res = resp'.obs.rotateErr)]_vars

(* A refresh whose record had been deleted by the sweep, one whose record  *)
(* is revoked and one whose record is expired: here, the first of them,    *)
(* answered 401 by RotateToken and by Refresh.                             *)
C18_Witness ==
    /\ RotateReturned /\ resp.op = "refresh"
    /\ \A r \in tokens : r.token_id # resp.in.tok.token_id
    /\ resp.obs.rotateErr = [code |-> 401, msg |-> "Invalid refresh token"]
    /\ resp.res = resp.obs.rotateErr

(* C19: Revoke, and Logout through it, is idempotent: called for a         *)
(* token_id whose record is already revoked, or that has no record, it     *)
(* returns no error and leaves the store as it was, with the same          *)
(* is_revoked and the same revoked_at in every record.                     *)
C19_RevokeIdempotent ==
    [][(/\ resp' # Nil /\ resp'.op = "logout"
        /\ \A r \in tokens : r.token_id = resp'.in.token_id => r.is_revoked) =>
           /\ resp'.res = OK
           /\ tokens' = tokens]_vars

(* A Logout has returned without error for a record that a rotation had   *)
(* already revoked.                                                        *)
C19_Witness ==
    /\ resp # Nil /\ resp.op = "logout" /\ resp.res = OK
    /\ resp.in.token_id \in {x.old : x \in rotated}
    /\ \E r \in tokens : r.token_id = resp.in.token_id /\ r.is_revoked
                          /\ r.revoked_at = now /\ now > 0

(* C20: DeleteExpired removes exactly the records that are expired or     *)
(* that were revoked more than the retention (7 days) ago: the step that   *)
(* answers the call removes every such record, it removes no unexpired     *)
(* record that is unrevoked or was revoked within the retention, and it    *)
(* leaves the remaining records unchanged.                                 *)
C20_DeleteExpiredExact ==
    [][(resp' # Nil /\ resp'.op = "DeleteExpired") =>
          /\ \A r \in tokens :
                (r.expires_at < now \/ (r.is_revoked /\ r.revoked_at < now - RevokedRetention))
                    => r \notin tokens'
          /\ \A r \in tokens :
                (~(r.expires_at < now)
                    /\ (~r.is_revoked \/ ~(r.revoked_at < now - RevokedRetention)))
                    => r \in tokens'
          /\ tokens' \subseteq tokens]_vars

(* C20, amended: DeleteExpired removes only records that are expired or    *)
(* were revoked more than the retention ago and leaves the remaining       *)
(* records unchanged; a call that returns no error removes, of the records *)
(* that were such when the call began, every one that is such still, by    *)
(* the clock of the call's beginning, when the call ends; a call that      *)
(* returns an error removes nothing. A record committed after the call     *)
(* began, while its DELETE waited for a row lock, is not removed by this   *)
(* call.                                                                   *)
C20_DeleteExpiredOfSeen ==
    [][(resp' # Nil /\ resp'.op = "DeleteExpired") =>
          LET ended  == {p \in Procs \cup {Sweeper} :
                            proc[p].pc = "x_wait" /\ proc'[p] = Idle}
              waited == ended # {}
              loc    == proc[CHOOSE p \in ended : TRUE].loc
              at     == IF waited THEN loc.t ELSE now
              seen   == IF waited THEN loc.seen ELSE {RowOf(r) : r \in tokens}
          IN  /\ tokens' \subseteq tokens
              /\ \A r \in tokens \ tokens' :
                    /\ RowOf(r) \in seen
                    /\ \/ r.expires_at < now
                       \/ (r.is_revoked /\ r.revoked_at < now - RevokedRetention)
              /\ resp'.res = OK =>
                    \A r \in tokens :
                       (/\ RowOf(r) \in seen
                        /\ \/ r.expires_at < at
                           \/ (r.is_revoked /\ r.revoked_at < at - RevokedRetention))
                           => r \notin tokens'
              /\ resp'.res # OK => tokens' = tokens]_vars

(* A sweep that waited for a rotation has returned: the rotated record is  *)
(* removed and the successor that the rotation committed meanwhile, itself *)
(* expired, is still stored.                                               *)
C20_Witness ==
    /\ resp # Nil /\ resp.op = "DeleteExpired" /\ resp.res = OK
    /\ \E e \in rotated :
          /\ \A r \in tokens : r.token_id # e.old
          /\ \E r \in tokens : r.token_id = e.new /\ r.expires_at < now

(* The rules of the policy a password violates, each stated on its own. *)
ViolatedRules(cs) ==
    LET low == ToLower(cs)
    IN  {r \in {"length", "uppercase", "lowercase", "number", "special", "forbidden",
                "consecutive", "sequential", "repeated"} :
            \/ r = "length" /\ (Len(cs) < 8 \/ Len(cs) > 128)
            \/ r = "uppercase" /\ \A i \in DOMAIN cs : cs[i] \notin Range(UpperAlphabet)
            \/ r = "lowercase" /\ \A i \in DOMAIN cs : cs[i] \notin Range(LowerAlphabet)
            \/ r = "number" /\ \A i \in DOMAIN cs : cs[i] \notin Range(Digits)
            \/ r = "special" /\ \A i \in DOMAIN cs : cs[i] \notin Punct \cup Symbol
            \/ r = "forbidden" /\ \E k \in DOMAIN ForbiddenWords : \E i \in 1..Len(low) :
                  LET w == ForbiddenWords[k].chars
                  IN  i + Len(w) - 1 <= Len(low) /\ SubSeq(low, i, i + Len(w) - 1) = w
            \/ r = "consecutive" /\ \E i \in 1..Len(cs) :
                  i + 3 <= Len(cs) /\ cs[i + 1] = cs[i] /\ cs[i + 2] = cs[i]
                                   /\ cs[i + 3] = cs[i]
            \/ r = "sequential" /\ \E sq \in sequential : \E i \in 1..Len(sq), j \in 1..Len(low) :
                  /\ i + 3 <= Len(sq) /\ j + 3 <= Len(low)
                  /\ SubSeq(low, j, j + 3) = SubSeq(sq, i, i + 3)
            \/ r = "repeated" /\ \E i \in 1..Len(cs), n \in 2..Len(cs) :
                  /\ i + 2 * n - 1 <= Len(cs)
                  /\ SubSeq(cs, i, i + n - 1) = SubSeq(cs, i + n, i + 2 * n - 1)}

(* The error that names a rule. *)
RuleError(r, cs) ==
    CASE r = "length" -> IF Len(cs) < 8
                         THEN "password must be at least 8 characters long"
                         ELSE "password must be no more than 128 characters long"
      [] r = "uppercase" -> "password must contain at least one uppercase letter"
      [] r = "lowercase" -> "password must contain at least one lowercase letter"
      [] r = "number" -> "password must contain at least one number"
      [] r = "special" -> "password must contain at least one special character"
      [] r = "forbidden" ->
            "password contains forbidden word: " \o ForbiddenWordIn(cs).word
      [] r = "consecutive" ->
            "password cannot contain more than 3 consecutive identical characters"
      [] r = "sequential" -> "password contains sequential characters"
      [] r = "repeated" -> "password contains repeated patterns"

PolicyAnswered == resp # Nil /\ resp.op = "ValidatePassword"

(* C21: ValidatePassword returns no error for every password that          *)
(* satisfies all the rules of the policy (length 8..128, the four          *)
(* character classes, no forbidden word, no run of more than 3 identical   *)
(* characters, no 4-character sequential substring, no immediately         *)
(* repeated block), and for a password that violates exactly one rule it   *)
(* returns the error that names that rule.                                 *)
C21_PolicyAcceptsAndNames ==
    PolicyAnswered =>
        LET v == ViolatedRules(resp.in.password)
        IN  /\ v = {} => resp.res = "ok"
            /\ \A r \in v : v = {r} => resp.res = RuleError(r, resp.in.password)

(* A password that satisfies every rule has been validated. *)
C21_Witness ==
    /\ PolicyAnswered
    /\ ViolatedRules(resp.in.password) = {}
    /\ resp.res = RegexpPanic

C23_StaleRecordsSwept ==
    \A id \in TokenIds :
        (\E r \in tokens :
            /\ r.token_id = id
            /\ (r.expires_at < now
                   \/ (r.is_revoked /\ r.revoked_at < now - RevokedRetention)))
        ~> (\A r \in tokens : r.token_id # id)

(* A record has expired and is still stored. *)
C23_Witness ==
    \E r \in tokens : r.expires_at < now /\ now = MaxTime

(* The username claim of an issued token is the stored username of the    *)
(* user the token names.                                                   *)
TokenNamesUser(pr, rows) ==
    \A u \in rows : u.id = pr.access_token.user_id =>
        u.username = pr.access_token.username

(* C24 as stated: the username and email of a stored user never change,   *)
(* and the username claim of every issued token equals the stored username *)
(* of its user.                                                            *)
C24_IdentityImmutable ==
    /\ [][\A u \in users, v \in users' :
             u.id = v.id => (u.username = v.username /\ u.email = v.email)]_vars
    /\ [](\A pr \in issued : TokenNamesUser(pr, users))

(* C24 as amended: the username and email of a stored user are changed by  *)
(* no step other than the write of a successful UpdateUser for that user;  *)
(* the username claim of an issued token stops being the stored username   *)
(* of its user only in such a step.                                        *)
C24_IdentityChangedOnlyByUpdate ==
    [][LET Updated(id) == /\ resp' # Nil /\ resp'.op = "update" /\ resp'.res = OK
                          /\ resp'.in.id = id
       IN  /\ \A u \in users, v \in users' :
                 (u.id = v.id /\ (u.username # v.username \/ u.email # v.email)) =>
                     Updated(u.id)
           /\ \A pr \in issued :
                 (TokenNamesUser(pr, users) /\ ~TokenNamesUser(pr, users')) =>
                     Updated(pr.access_token.user_id)]_vars

(* A user holding a token issued to "alice" has been renamed. *)
C24_Witness ==
    /\ resp # Nil /\ resp.op = "update" /\ resp.res = OK /\ resp.in.username = "bob"
    /\ \E u \in users, pr \in issued :
          /\ u.id = pr.access_token.user_id
          /\ u.username = "bob" /\ pr.access_token.username = "alice"

(* C25: no two stored users share an email or a username, and a Register  *)
(* call whose insert loses to a concurrent registration of the same email  *)
(* or username creates nothing and fails with the Conflict (409) error of  *)
(* a sequential duplicate registration.                                    *)
C25_RaceLoserGetsConflict ==
    /\ [](\A u, v \in users :
             (u.email = v.email \/ u.username = v.username) => u = v)
    /\ [][\A p \in Procs :
             (/\ proc[p].pc = "c_insert" /\ proc'[p] # proc[p]
              /\ resp' # Nil /\ resp'.op = "register" /\ resp'.res # OK) =>
                 /\ users' = users
                 /\ resp'.res \in {ErrUserExists, ErrUsernameTaken}]_vars

(* A registration passed both pre-checks, lost the insert to a concurrent  *)
(* registration of the same email and answered 500.                        *)
C25_Witness ==
    /\ resp # Nil /\ resp.op = "register" /\ resp.res.code = 500
    /\ Cardinality(users \ SeedUsers) = 1
    /\ \E u \in users : u.email = resp.in.email

(* The login record a session record descends from: the record itself     *)
(* when a login created it, else the origin of the record whose rotation   *)
(* created it.                                                             *)
RECURSIVE ChainOrigin(_)
ChainOrigin(id) ==
    IF \E e \in rotated : e.new = id
    THEN ChainOrigin((CHOOSE e \in rotated : e.new = id).old)
    ELSE id

ActiveRecord(r) == ~r.is_revoked /\ r.expires_at > now

(* C26: in every reachable state the records descending from one login     *)
(* include at most one that is unrevoked and unexpired.                    *)
C26_OneActivePerChain ==
    \A r, q \in tokens :
        (/\ ActiveRecord(r) /\ ActiveRecord(q)
         /\ ChainOrigin(r.token_id) = ChainOrigin(q.token_id)) => r = q

(* A chain of two stored records, the login record revoked by the rotation *)
(* and its successor active, next to a second chain with an active record. *)
C26_Witness ==
    \E r, q, o \in tokens :
        /\ [old |-> r.token_id, new |-> q.token_id] \in rotated
        /\ r.is_revoked /\ ActiveRecord(q)
        /\ ActiveRecord(o) /\ ChainOrigin(o.token_id) # ChainOrigin(q.token_id)

(* C27: every Authenticate call that completes returns a token pair or a   *)
(* typed error; none dereferences the absent result of its second lookup   *)
(* by email after a concurrent DeleteUser removed the user.                *)
C27_LoginSurvivesDelete ==
    (resp # Nil /\ resp.op = "login") =>
        \/ resp.res = OK /\ resp.out # Nil
        \/ resp.res # OK /\ resp.res # ErrPanic

(* A login found its user, the user was deleted, and the login's second    *)
(* lookup returned no user: the request ended in a nil dereference.        *)
C27_Witness ==
    /\ resp # Nil /\ resp.op = "login" /\ resp.res = ErrPanic
    /\ \A u \in users : u.email # resp.in.email

(* C28: the write of UpdateUser leaves the is_active flag and the password *)
(* hash of every stored user as they were just before it, and leaves the   *)
(* rows of the other users untouched, also when DeactivateUser or          *)
(* ActivateUser completed between its read and its write.                  *)
C28_UpdateKeepsActiveFlag ==
    [][\A p \in Procs :
          (proc[p].pc = "u_update" /\ proc'[p] # proc[p]) =>
              /\ \A u \in users, v \in users' :
                    u.id = v.id =>
                        (u.is_active = v.is_active /\ u.password = v.password)
              /\ \A u \in users : u.id # proc[p].in.id => u \in users']_vars

(* A successful UpdateUser with an empty request has just stored           *)
(* is_active = false for a user for whom no DeactivateUser is in effect.   *)
C28_Witness ==
    /\ resp # Nil /\ resp.op = "update" /\ resp.res = OK
    /\ resp.in.username = "" /\ resp.in.email = ""
    /\ resp.in.id \notin deactivated
    /\ \E u \in users : u.id = resp.in.id /\ ~u.is_active

(* C29: the SELECT of RotateToken accepts the old token_id exactly when    *)
(* IsValid returns true for it at that instant, the instant equal to       *)
(* expires_at included.                                                    *)
C29_RotateAgreesWithIsValid ==
    [][\A p \in Procs :
          (proc[p].pc = "r_lock" /\ proc'[p] # proc[p]) =>
              ((proc'[p].pc = "r_commit") <=> IsValid(proc[p].loc.old))]_vars

(* IsValid has just answered false for a record whose expires_at is the    *)
(* current instant, while a rotation of that record is about to run its    *)
(* SELECT and test, which accept the record at this instant.               *)
C29_Witness ==
    /\ resp # Nil /\ resp.op = "IsValid" /\ ~resp.out
    /\ \E r \in tokens :
          /\ r.token_id = resp.in /\ ~r.is_revoked /\ r.expires_at = now
          /\ \E p \in Procs :
                /\ proc[p].pc = "r_lock" /\ proc[p].loc.old = r.token_id
                /\ ~Locked(r.token_id)
                /\ RotateToken_Check(GetByTokenID(r.token_id), now) = OK

(* C30: the step that answers Logout(user_id, token_id) changes no record *)
(* but the one whose token_id is its argument: every other record, of the  *)
(* same user, of another user, or the successor that a rotation of that    *)
(* token_id committed earlier, stays as it was; and the record with that   *)
(* token_id is revoked whatever the user_id argument is.                   *)
C30_LogoutRevokesOnlyItsToken ==
    [][(resp' # Nil /\ resp'.op = "logout") =>
          /\ \A r \in tokens : r.token_id # resp'.in.token_id => r \in tokens'
          /\ \A q \in tokens' : \E r \in tokens :
                /\ r.token_id = q.token_id
                /\ (r.token_id # resp'.in.token_id => q = r)
                /\ (r.token_id = resp'.in.token_id =>
                       q = [r EXCEPT !.is_revoked = TRUE, !.revoked_at = q.revoked_at])]_vars

(* A logout called with the id of another user has just revoked a record   *)
(* that a rotation had already replaced, while the successor and a session *)
(* of the other user are unrevoked.                                        *)
C30_Witness ==
    /\ resp # Nil /\ resp.op = "logout"
    /\ \E r, q, o \in tokens :
          /\ r.token_id = resp.in.token_id /\ r.is_revoked
          /\ r.user_id # resp.in.user_id
          /\ [old |-> r.token_id, new |-> q.token_id] \in rotated /\ ~q.is_revoked
          /\ o.user_id # r.user_id /\ ~o.is_revoked

====
